---- MODULE Spec2Model ----
(***************************************************************************)
(* A model of the AVM1 object / value / scope engine of ruffle:            *)
(* core/src/avm1/{property,object,value,scope}.rs and                      *)
(* core/src/avm1/object/{script_object,super_object}.rs.                   *)
(*                                                                         *)
(* Objects live in a heap (objects), keyed by identity.  Every operation   *)
(* of the engine is a pure operator over the heap that returns the new     *)
(* heap, the result and the script callbacks it ran; an action applies one *)
(* operation to inputs drawn from small sets and records it in last.       *)
(***************************************************************************)
EXTENDS Integers, Sequences, FiniteSets, TLC

VARIABLES
    objects,      \* heap: object identity -> object (GcCell contents)
    scopes,       \* arena of scope cells: scope identity -> Scope
    scope,        \* the scope of the running activation
    swf_version,  \* activation.swf_version()
    last,         \* the operation performed by the latest step, with its result
    steps         \* number of operations performed so far

vars == <<objects, scopes, scope, swf_version, last, steps>>

(***************************************************************************)
(* Value (value.rs)                                                        *)
(***************************************************************************)
Undefined == [tag |-> "Undefined", val |-> "-"]
Null == [tag |-> "Null", val |-> "-"]
Bool(b) == [tag |-> "Bool", val |-> b]
Number(f) == [tag |-> "Number", val |-> f]
String(s) == [tag |-> "String", val |-> s]
Object(o) == [tag |-> "Object", val |-> o]

\* Strings are sequences of one-character strings.
StrInitial == <<"i", "n", "i", "t", "i", "a", "l">>
StrReplaced == <<"r", "e", "p", "l", "a", "c", "e", "d">>
StrVirtual == <<"V", "i", "r", "t", "u", "a", "l", "!">>
StrThrown == <<"E">>
StrRaised == <<"F">>

\* Result<Value, Error>
Ok(v) == [kind |-> "Ok", val |-> v]
ThrownValue(v) == [kind |-> "ThrownValue", val |-> v]
OtherError == [kind |-> "Other", val |-> Undefined]
PrototypeRecursionLimit == [kind |-> "PrototypeRecursionLimit", val |-> Undefined]

\* What a call does when it gives no result: the thread panics, or the
\* call never returns.
Panic == [kind |-> "Panic", val |-> Undefined]
Diverges == [kind |-> "Diverges", val |-> Undefined]

is_primitive(v) == v.tag # "Object"

\* f64.  The numbers of the model are NaN, the infinities, -0.0 and the
\* integers of i32.
NaN == [k |-> "nan", n |-> 0]
NegZero == [k |-> "nzero", n |-> 0]
Fin(n) == [k |-> "fin", n |-> n]

is_nan(f) == f.k = "nan"

Infinity == [k |-> "inf", n |-> 1]
NegInfinity == [k |-> "inf", n |-> -1]

is_infinite(f) == f.k = "inf"
is_sign_positive(f) == f.k # "nzero" /\ f.n >= 0
is_sign_negative(f) == f.k = "nzero" \/ f.n < 0

\* a == b on f64: NaN equals nothing, -0.0 equals 0.0
f64_eq(a, b) ==
    /\ ~is_nan(a) /\ ~is_nan(b)
    /\ is_infinite(a) = is_infinite(b)
    /\ a.n = b.n

\* a < b on f64: false when either is NaN
f64_lt(a, b) ==
    /\ ~is_nan(a) /\ ~is_nan(b)
    /\ IF is_infinite(a) THEN a.n < 0 /\ ~f64_eq(a, b)
       ELSE IF is_infinite(b) THEN b.n > 0
       ELSE a.n < b.n

(***************************************************************************)
(* Attribute and Property (property.rs)                                    *)
(***************************************************************************)
DONT_ENUM == "DONT_ENUM"
DONT_DELETE == "DONT_DELETE"
READ_ONLY == "READ_ONLY"
AllAttributes == {DONT_ENUM, DONT_DELETE, READ_ONLY}
Attribute_empty == {}

\* Option<T> is <<>> (None) or <<t>> (Some(t)).
None == <<>>
Some(t) == <<t>>

new_stored(data, attributes) ==
    [data |-> Some(data), getter |-> None, setter |-> None, attributes |-> attributes]

new_virtual(getter, setter, attributes) ==
    [data |-> None, getter |-> Some(getter), setter |-> setter, attributes |-> attributes]

is_virtual(p) == p.getter # None

is_enumerable(p) == DONT_ENUM \notin p.attributes

can_delete_ReadOnly(p) == READ_ONLY \notin p.attributes
can_delete(p) == DONT_DELETE \notin p.attributes

is_overwritable_NoVirtualCheck(p) == ~(READ_ONLY \in p.attributes)
is_overwritable_DontDelete(p) ==
    ~(READ_ONLY \in p.attributes \/ DONT_DELETE \in p.attributes
        \/ (is_virtual(p) /\ p.setter = None))
is_overwritable(p) ==
    ~(READ_ONLY \in p.attributes \/ (is_virtual(p) /\ p.setter = None))

\* Property::set: the property after the assignment and the setter to call.
Property_set(p, value) ==
    IF p.setter # None
    THEN [prop |-> p, setter |-> p.setter]
    ELSE [prop |-> IF is_overwritable(p) THEN [p EXCEPT !.data = Some(value)] ELSE p,
          setter |-> None]

(***************************************************************************)
(* PropertyMap: an insertion-ordered map from names to V, looked up with   *)
(* or without regard to letter case.  A map is a sequence of entries.      *)
(***************************************************************************)
Lower(n) ==
    CASE n = "A" -> "a"
      [] n = "B" -> "b"
      [] n = "C" -> "c"
      [] OTHER -> n

KeyEq(k, name, case_sensitive) ==
    IF case_sensitive THEN k = name ELSE Lower(k) = Lower(name)

PM_new == <<>>

\* Index of the entry for name, 0 when there is none.
PM_index(m, name, case_sensitive) ==
    IF \E i \in 1..Len(m) : KeyEq(m[i].key, name, case_sensitive)
    THEN CHOOSE i \in 1..Len(m) :
            /\ KeyEq(m[i].key, name, case_sensitive)
            /\ \A j \in 1..(i - 1) : ~KeyEq(m[j].key, name, case_sensitive)
    ELSE 0

PM_contains_key(m, name, case_sensitive) == PM_index(m, name, case_sensitive) # 0

PM_get(m, name, case_sensitive) ==
    LET i == PM_index(m, name, case_sensitive)
    IN  IF i = 0 THEN None ELSE Some(m[i].val)

\* insert: an occupied entry keeps its key and position and gets the new value.
PM_insert(m, name, v, case_sensitive) ==
    LET i == PM_index(m, name, case_sensitive)
    IN  IF i = 0
        THEN Append(m, [key |-> name, val |-> v])
        ELSE [m EXCEPT ![i].val = v]

PM_remove(m, name, case_sensitive) ==
    LET i == PM_index(m, name, case_sensitive)
    IN  IF i = 0 THEN m
        ELSE [j \in 1..(Len(m) - 1) |-> IF j < i THEN m[j] ELSE m[j + 1]]

PM_keys(m) == [i \in 1..Len(m) |-> m[i].key]

(***************************************************************************)
(* Activation context                                                      *)
(***************************************************************************)
is_case_sensitive(version) == version > 6

(***************************************************************************)
(* Script functions.  A function object is identified by its behaviour:    *)
(*   fconst  returns the string "Virtual!"                                 *)
(*   fnew    returns its third argument (a watcher passing the new value)  *)
(*   fthrow  throws the string "E"                                         *)
(*   fraise  throws the string "F"                                         *)
(*   ferr    fails with an error that is not a thrown value                *)
(*   fone    returns the number 1                                          *)
(*   fobj    returns the object o1                                         *)
(***************************************************************************)
FuncIds == {"fconst", "fnew", "fthrow", "fraise", "ferr", "fone", "fobj"}

as_executable(o) == IF o \in FuncIds THEN Some(o) ELSE None

Executable_exec(f, args) ==
    CASE f = "fconst" -> Ok(String(StrVirtual))
      [] f = "fnew" -> Ok(IF Len(args) >= 3 THEN args[3] ELSE Undefined)
      [] f = "fthrow" -> ThrownValue(String(StrThrown))
      [] f = "fraise" -> ThrownValue(String(StrRaised))
      [] f = "fone" -> Ok(Number(Fin(1)))
      [] f = "fobj" -> Ok(Object("o1"))
      [] OTHER -> OtherError

\* One record per callback started: which function, as what, on which this.
Call(f, name, this, depth, args) ==
    [fn |-> f, name |-> name, this |-> this, depth |-> depth, args |-> args]

(***************************************************************************)
(* Objects.  ScriptObjectData (script_object.rs) and SuperObjectData       *)
(* (super_object.rs) share one record shape; class tells them apart.       *)
(***************************************************************************)
NoObject == "None"

ScriptObject_object(proto) ==
    [class |-> "ScriptObject",
     prototype |-> IF proto = None THEN Undefined ELSE Object(proto[1]),
     values |-> PM_new,
     interfaces |-> <<>>,
     watchers |-> PM_new,
     this |-> NoObject,
     base_proto |-> NoObject]

Watcher_new(callback, user_data) == [callback |-> callback, user_data |-> user_data]

U8_MAX == 255

\* ScriptObject::proto; a function object, which holds no state in this
\* model, ends the chain.
ScriptObject_proto(objs, o) ==
    IF o \in DOMAIN objs THEN objs[o].prototype ELSE Undefined

\* SuperObject::super_proto
super_proto_AtBase(objs, o) == Object(objs[o].base_proto)
super_proto(objs, o) == ScriptObject_proto(objs, objs[o].base_proto)

Object_proto(objs, o) ==
    IF o \in DOMAIN objs /\ objs[o].class = "SuperObject"
    THEN super_proto(objs, o)
    ELSE ScriptObject_proto(objs, o)

NotPresent == [some |-> FALSE, res |-> Ok(Undefined), calls |-> <<>>]

\* ScriptObject::get_local: Option<Result<Value, Error>> and the getter run.
ScriptObject_get_local_ErrorKept(objs, o, name, this, depth, cs) ==
    LET e == PM_get(objs[o].values, name, cs)
    IN  IF e = None THEN NotPresent
        ELSE IF ~is_virtual(e[1])
        THEN [some |-> TRUE, res |-> Ok(e[1].data[1]), calls |-> <<>>]
        ELSE IF as_executable(e[1].getter[1]) # None
        THEN [some |-> TRUE, res |-> Executable_exec(e[1].getter[1], <<>>),
              calls |-> <<Call(e[1].getter[1], "[Getter]", this, depth, <<>>)>>]
        ELSE NotPresent
ScriptObject_get_local(objs, o, name, this, depth, cs) ==
    LET e == PM_get(objs[o].values, name, cs)
    IN  IF e = None THEN NotPresent
        ELSE IF ~is_virtual(e[1])
        THEN [some |-> TRUE, res |-> Ok(e[1].data[1]), calls |-> <<>>]
        ELSE LET getter == e[1].getter[1]
                 result == Executable_exec(getter, <<>>)
             IN  IF as_executable(getter) # None
                 THEN [some |-> TRUE,
                       res |-> IF result.kind \in {"Ok", "ThrownValue"}
                               THEN result
                               ELSE Ok(Undefined),
                       calls |-> <<Call(getter, "[Getter]", this, depth, <<>>)>>]
                 ELSE NotPresent

\* SuperObject::get_local
SuperObject_get_local == [some |-> TRUE, res |-> Ok(Undefined), calls |-> <<>>]

Object_get_local(objs, o, name, this, depth, cs) ==
    IF o \notin DOMAIN objs THEN NotPresent
    ELSE IF objs[o].class = "SuperObject" THEN SuperObject_get_local
    ELSE ScriptObject_get_local(objs, o, name, this, depth, cs)

\* search_prototype: the value, the depth it was found at, the getter run.
\* The state of its loop: proto and depth, and once it has returned (done)
\* the result.
search_prototype_start(proto) ==
    [done |-> FALSE, proto |-> proto, depth |-> 0, res |-> Ok(Undefined),
     calls |-> <<>>]

search_prototype_return(s, res, depth, calls) ==
    [s EXCEPT !.done = TRUE, !.res = res, !.depth = depth, !.calls = calls]

\* One evaluation of the loop condition and, when it holds, of the body.
search_prototype_step_NoLimit(objs, s, name, this, cs) ==
    IF s.proto.tag # "Object"
    THEN search_prototype_return(s, Ok(Undefined), 0, <<>>)
    ELSE LET local == Object_get_local(objs, s.proto.val, name, this, s.depth, cs)
         IN  IF local.some
             THEN search_prototype_return(s, local.res, s.depth, local.calls)
             ELSE [s EXCEPT !.proto = Object_proto(objs, s.proto.val),
                            !.depth = s.depth + 1]

search_prototype_step(objs, s, name, this, cs) ==
    IF s.proto.tag # "Object"
    THEN search_prototype_return(s, Ok(Undefined), 0, <<>>)
    ELSE LET local == Object_get_local(objs, s.proto.val, name, this, s.depth, cs)
         IN  IF local.some
             THEN search_prototype_return(s, local.res, s.depth, local.calls)
             ELSE IF s.depth + 1 = U8_MAX
             THEN search_prototype_return(s, PrototypeRecursionLimit, s.depth + 1, <<>>)
             ELSE [s EXCEPT !.proto = Object_proto(objs, s.proto.val),
                            !.depth = s.depth + 1]

\* At most n turns of the loop from state s, taken as two runs of half of them.
RECURSIVE search_prototype_loop(_, _, _, _, _, _)
search_prototype_loop(objs, s, name, this, n, cs) ==
    IF s.done \/ n = 0 THEN s
    ELSE IF n = 1 THEN search_prototype_step(objs, s, name, this, cs)
    ELSE search_prototype_loop(
             objs, search_prototype_loop(objs, s, name, this, n \div 2, cs),
             name, this, n - (n \div 2), cs)

\* The loop returns within U8_MAX turns: a turn that does not return adds one
\* to depth.
search_prototype(objs, proto, name, this, cs) ==
    search_prototype_loop(objs, search_prototype_start(proto), name, this,
                          U8_MAX, cs)

\* get with __proto__ looked up like any other name.
TObject_get_FromTable(objs, o, name, cs) ==
    search_prototype(objs, Object(o), name, o, cs)

\* TObject::get
TObject_get(objs, o, name, cs) ==
    IF name = "__proto__"
    THEN [res |-> Ok(Object_proto(objs, o)), depth |-> 0, calls |-> <<>>]
    ELSE search_prototype(objs, Object(o), name, o, cs)

\* ScriptObject::has_own_property
has_own_property(objs, o, name, cs) ==
    \/ name = "__proto__"
    \/ (o \in DOMAIN objs /\ PM_contains_key(objs[o].values, name, cs))

\* ScriptObject::has_property
RECURSIVE has_property(_, _, _, _)
has_property(objs, o, name, cs) ==
    \/ has_own_property(objs, o, name, cs)
    \/ LET proto == Object_proto(objs, o)
       IN  proto.tag = "Object" /\ has_property(objs, proto.val, name, cs)

\* ScriptObject::has_own_virtual
has_own_virtual(objs, o, name, cs) ==
    /\ o \in DOMAIN objs
    /\ LET slot == PM_get(objs[o].values, name, cs)
       IN  slot # None /\ is_virtual(slot[1])

\* ScriptObject::is_property_enumerable
is_property_enumerable(objs, o, name, cs) ==
    LET prop == PM_get(objs[o].values, name, cs)
    IN  prop # None /\ is_enumerable(prop[1])

\* ScriptObject::call_setter: the heap afterwards and the setter to call.
call_setter(objs, o, name, value, cs) ==
    LET i == PM_index(objs[o].values, name, cs)
    IN  IF i # 0 /\ is_virtual(objs[o].values[i].val)
        THEN LET r == Property_set(objs[o].values[i].val, value)
             IN  [objs |-> [objs EXCEPT ![o].values[i].val = r.prop],
                  setter |-> r.setter]
        ELSE [objs |-> objs, setter |-> None]

\* Watcher::call
Watcher_call(watcher, name, old_value, new_value) ==
    IF as_executable(watcher.callback) # None
    THEN Executable_exec(watcher.callback,
                         <<name, old_value, new_value, watcher.user_data>>)
    ELSE Ok(Undefined)

\* The entry step of ScriptObject::set_local: an occupied entry is assigned
\* through Property::set, a vacant one gets a stored property.
set_local_entry(objs, o, name, value, cs) ==
    LET i == PM_index(objs[o].values, name, cs)
    IN  IF i # 0
        THEN LET r == Property_set(objs[o].values[i].val, value)
             IN  [objs |-> [objs EXCEPT ![o].values[i].val = r.prop],
                  setter |-> r.setter]
        ELSE [objs |-> [objs EXCEPT ![o].values =
                            Append(@, [key |-> name,
                                       val |-> new_stored(value, Attribute_empty)])],
              setter |-> None]

\* The setter Property::set handed back, run with the value.
setter_exec(setter, value) ==
    IF setter # None /\ as_executable(setter[1]) # None
    THEN Executable_exec(setter[1], <<value>>)
    ELSE Ok(Undefined)

setter_calls(setter, this, depth, value) ==
    IF setter # None /\ as_executable(setter[1]) # None
    THEN <<Call(setter[1], "[Setter]", this, depth, <<value>>)>>
    ELSE <<>>

\* The end of set_local: a value thrown by the setter is returned, else
\* result, the watcher's outcome.
set_local_finish(this, depth, value, result, wcalls, entry) ==
    [objs |-> entry.objs,
     res |-> IF setter_exec(entry.setter, value).kind = "ThrownValue"
             THEN setter_exec(entry.setter, value)
             ELSE result,
     calls |-> wcalls \o setter_calls(entry.setter, this, depth, value)]

set_local_store(objs, o, name, this, depth, cs, value, result, wcalls) ==
    set_local_finish(this, depth, value, result, wcalls,
                     set_local_entry(objs, o, name, value, cs))

\* set_local with the value kept when the watcher fails.
set_local_watched_ValueKept(objs, o, name, this, depth, cs, old, watched, wcalls) ==
    IF old.res.kind # "Ok"
    THEN [objs |-> objs, res |-> old.res, calls |-> old.calls]
    ELSE set_local_store(objs, o, name, this, depth, cs,
            IF watched.kind = "Ok" THEN watched.val ELSE wcalls[1].args[3],
            IF watched.kind = "ThrownValue" THEN watched ELSE Ok(Undefined),
            old.calls \o wcalls)

\* A watcher is registered: the old value is read first (an error of the
\* read is returned at once), then the watcher runs.  Its return value
\* replaces the value; a failed watcher gives undefined, and what it threw
\* is returned after the assignment.
set_local_watched(objs, o, name, this, depth, cs, old, watched, wcalls) ==
    IF old.res.kind # "Ok"
    THEN [objs |-> objs, res |-> old.res, calls |-> old.calls]
    ELSE set_local_store(objs, o, name, this, depth, cs,
            IF watched.kind = "Ok" THEN watched.val ELSE Undefined,
            IF watched.kind = "ThrownValue" THEN watched ELSE Ok(Undefined),
            old.calls \o wcalls)

\* ScriptObject::set_local: the heap afterwards, Result<(), Error>, callbacks.
ScriptObject_set_local(objs, o, name, value0, this, depth, cs) ==
    LET watcher == PM_get(objs[o].watchers, name, cs)
        old == TObject_get(objs, o, name, cs).res
    IN  IF watcher = None
        THEN set_local_store(objs, o, name, this, depth, cs, value0,
                             Ok(Undefined), <<>>)
        ELSE set_local_watched(objs, o, name, this, depth, cs,
                TObject_get(objs, o, name, cs),
                Watcher_call(watcher[1], name, old.val, value0),
                IF as_executable(watcher[1].callback) # None
                THEN <<Call(watcher[1].callback, name, this, depth,
                            <<name, old.val, value0, watcher[1].user_data>>)>>
                ELSE <<>>)

\* SuperObject::set_local
SuperObject_set_local(objs) == [objs |-> objs, res |-> Ok(Undefined), calls |-> <<>>]

Object_set_local(objs, o, name, value, this, depth, cs) ==
    IF objs[o].class = "SuperObject"
    THEN SuperObject_set_local(objs)
    ELSE ScriptObject_set_local(objs, o, name, value, this, depth, cs)

\* ScriptObject::set_proto
ScriptObject_set_proto(objs, o, prototype) == [objs EXCEPT ![o].prototype = prototype]

\* The crawl of TObject::set up the prototype chain for a virtual setter:
\* the state of its loop.  depth is a u8; turns counts the objects passed.
set_crawl_start(this) ==
    [done |-> FALSE, out |-> "", proto |-> Object(this), depth |-> 0, turns |-> 0]

\* proto = this_proto.proto(); depth += 1.  The loop has no limit.  In a
\* build with overflow checks the addition panics when depth is u8::MAX.
\* Without them depth wraps around, and once more objects have been passed
\* than the heap holds, an object has come twice with nothing changed in
\* between: the loop never ends.
set_crawl_next(objs, s, overflow_checks) ==
    IF overflow_checks /\ s.depth = U8_MAX
    THEN [s EXCEPT !.done = TRUE, !.out = "panic"]
    ELSE IF ~overflow_checks /\ s.turns >= Cardinality(DOMAIN objs)
    THEN [s EXCEPT !.done = TRUE, !.out = "diverges"]
    ELSE [s EXCEPT !.proto = Object_proto(objs, s.proto.val),
                   !.depth = (s.depth + 1) % (U8_MAX + 1),
                   !.turns = s.turns + 1]

\* One turn of the while-let loop.
set_crawl_step(objs, s, name, cs, overflow_checks) ==
    IF s.proto.tag # "Object"
    THEN [s EXCEPT !.done = TRUE, !.out = "absent"]
    ELSE IF has_own_virtual(objs, s.proto.val, name, cs)
    THEN [s EXCEPT !.done = TRUE, !.out = "virtual"]
    ELSE set_crawl_next(objs, s, overflow_checks)

\* n turns of the loop, by halving.
RECURSIVE set_crawl_loop(_, _, _, _, _, _)
set_crawl_loop(objs, s, name, cs, overflow_checks, n) ==
    IF s.done \/ n = 0 THEN s
    ELSE IF n = 1 THEN set_crawl_step(objs, s, name, cs, overflow_checks)
    ELSE set_crawl_loop(
             objs, set_crawl_loop(objs, s, name, cs, overflow_checks, n \div 2),
             name, cs, overflow_checks, n - (n \div 2))

\* What the crawl leaves: whether set returned from inside it, and then
\* the heap, the result and the callbacks.  The setter's result is dropped.
set_crawl_end(objs, s, setter, this, value) ==
    [found |-> s.out # "absent",
     objs |-> IF s.out = "virtual" THEN setter.objs ELSE objs,
     res |-> IF s.out = "panic" THEN Panic
             ELSE IF s.out = "diverges" THEN Diverges
             ELSE Ok(Undefined),
     calls |-> IF s.out = "virtual"
               THEN setter_calls(setter.setter, this, s.depth, value)
               ELSE <<>>]

set_crawl_found(objs, s, name, value, this, cs) ==
    set_crawl_end(objs, s,
                  IF s.out = "virtual"
                  THEN call_setter(objs, s.proto.val, name, value, cs)
                  ELSE [objs |-> objs, setter |-> None],
                  this, value)

\* The loop is over after U8_MAX + 1 turns with overflow checks and after
\* one turn more than the heap has objects without them.
set_crawl(objs, this, name, value, cs, overflow_checks) ==
    set_crawl_found(objs,
        set_crawl_loop(objs, set_crawl_start(this), name, cs, overflow_checks,
                       IF overflow_checks THEN U8_MAX + 1
                       ELSE Cardinality(DOMAIN objs) + 1),
        name, value, this, cs)

\* TObject::set
TObject_set(objs, o, name, value, cs, overflow_checks) ==
    IF name = ""
    THEN [objs |-> objs, res |-> Ok(Undefined), calls |-> <<>>]
    ELSE IF name = "__proto__"
    THEN [objs |-> ScriptObject_set_proto(objs, o, value),
          res |-> Ok(Undefined), calls |-> <<>>]
    ELSE IF ~has_own_property(objs, o, name, cs)
            /\ set_crawl(objs, o, name, value, cs, overflow_checks).found
    THEN [objs |-> set_crawl(objs, o, name, value, cs, overflow_checks).objs,
          res |-> set_crawl(objs, o, name, value, cs, overflow_checks).res,
          calls |-> set_crawl(objs, o, name, value, cs, overflow_checks).calls]
    ELSE Object_set_local(objs, o, name, value, o, 0, cs)

\* ScriptObject::interfaces; SuperObject::interfaces is always empty.
Object_interfaces(objs, o) ==
    IF objs[o].class = "SuperObject" THEN <<>> ELSE objs[o].interfaces

\* ScriptObject::set_interfaces
ScriptObject_set_interfaces(objs, o, iface_list) ==
    [objs EXCEPT ![o].interfaces = iface_list]

\* TObject::is_instance_of: the state of its loop.
is_instance_of_start(objs, o) ==
    [done |-> FALSE, res |-> Ok(Bool(FALSE)), calls |-> <<>>,
     proto_stack |-> IF Object_proto(objs, o).tag = "Object"
                     THEN <<Object_proto(objs, o).val>>
                     ELSE <<>>]

\* The for loop over the interfaces of this_proto, from the i-th on: an
\* interface that is the constructor returns true, a failed get of
\* "prototype" returns the error, a prototype that is an object is pushed.
RECURSIVE is_instance_of_interfaces(_, _, _, _, _, _)
RECURSIVE is_instance_of_pushed(_, _, _, _, _, _, _)
is_instance_of_interfaces(objs, s, ifaces, i, constructor, cs) ==
    IF i > Len(ifaces) THEN s
    ELSE IF ifaces[i] = constructor
    THEN [s EXCEPT !.done = TRUE, !.res = Ok(Bool(TRUE))]
    ELSE is_instance_of_pushed(objs, s, ifaces, i, constructor, cs,
                               TObject_get(objs, ifaces[i], "prototype", cs))

is_instance_of_pushed(objs, s, ifaces, i, constructor, cs, got) ==
    IF got.res.kind # "Ok"
    THEN [s EXCEPT !.done = TRUE, !.res = got.res, !.calls = @ \o got.calls]
    ELSE is_instance_of_interfaces(
             objs,
             [s EXCEPT !.calls = @ \o got.calls,
                       !.proto_stack = IF got.res.val.tag = "Object"
                                       THEN Append(@, got.res.val.val)
                                       ELSE @],
             ifaces, i + 1, constructor, cs)

\* The body of the while loop with the interfaces read in every version.
is_instance_of_popped_AnyVersion(objs, s, this_proto, constructor, version) ==
    is_instance_of_interfaces(
        objs,
        [s EXCEPT !.proto_stack =
            IF Object_proto(objs, this_proto).tag = "Object"
            THEN Append(@, Object_proto(objs, this_proto).val)
            ELSE @],
        Object_interfaces(objs, this_proto), 1, constructor,
        is_case_sensitive(version))

\* The body of the while loop once this_proto is popped and is not the
\* prototype searched for.
is_instance_of_popped(objs, s, this_proto, constructor, version) ==
    IF version >= 7
    THEN is_instance_of_interfaces(
             objs,
             [s EXCEPT !.proto_stack =
                 IF Object_proto(objs, this_proto).tag = "Object"
                 THEN Append(@, Object_proto(objs, this_proto).val)
                 ELSE @],
             Object_interfaces(objs, this_proto), 1, constructor,
             is_case_sensitive(version))
    ELSE [s EXCEPT !.proto_stack =
             IF Object_proto(objs, this_proto).tag = "Object"
             THEN Append(@, Object_proto(objs, this_proto).val)
             ELSE @]

\* One turn of the while loop; the loop ends with Ok(false) on an empty stack.
is_instance_of_step(objs, s, constructor, prototype, version) ==
    IF s.proto_stack = <<>>
    THEN [s EXCEPT !.done = TRUE]
    ELSE IF s.proto_stack[Len(s.proto_stack)] = prototype
    THEN [s EXCEPT !.done = TRUE, !.res = Ok(Bool(TRUE))]
    ELSE is_instance_of_popped(
             objs, [s EXCEPT !.proto_stack = SubSeq(@, 1, Len(@) - 1)],
             s.proto_stack[Len(s.proto_stack)], constructor, version)

\* n turns of the loop, by halving.
RECURSIVE is_instance_of_loop(_, _, _, _, _, _)
is_instance_of_loop(objs, s, constructor, prototype, version, n) ==
    IF s.done \/ n = 0 THEN s
    ELSE IF n = 1 THEN is_instance_of_step(objs, s, constructor, prototype, version)
    ELSE is_instance_of_loop(
             objs,
             is_instance_of_loop(objs, s, constructor, prototype, version, n \div 2),
             constructor, prototype, version, n - (n \div 2))

\* 1 + d + ... + d^(n-1): the size of a tree of depth n with d branches
\* at each object.
RECURSIVE tree_size(_, _)
tree_size(d, n) == IF n = 0 THEN 0 ELSE 1 + d * tree_size(d, n - 1)

\* The longest interface list of the heap.
max_interfaces(objs) ==
    CHOOSE k \in {0} \cup {Len(objs[o].interfaces) : o \in DOMAIN objs} :
        \A o \in DOMAIN objs : Len(objs[o].interfaces) <= k

\* The loop has no visited set and no limit.  What follows the pop of an
\* object depends on the heap alone, and the stack below it is not touched
\* until all that the object pushed is popped: once an object is popped
\* again among what it pushed, the loop never returns.  A loop that returns
\* has popped a tree in which no object is below itself, so it makes no
\* more turns than that tree has objects, and one for the empty stack.
is_instance_of_turns(objs) ==
    1 + tree_size(1 + max_interfaces(objs), Cardinality(DOMAIN objs))

is_instance_of_return(s) ==
    [res |-> IF s.done THEN s.res ELSE Diverges, calls |-> s.calls]

is_instance_of(objs, o, constructor, prototype, version) ==
    is_instance_of_return(
        is_instance_of_loop(objs, is_instance_of_start(objs, o), constructor,
                            prototype, version, is_instance_of_turns(objs)))

\* ScriptObject::delete
ScriptObject_delete(objs, o, name, cs) ==
    LET i == PM_index(objs[o].values, name, cs)
    IN  IF i # 0 /\ can_delete(objs[o].values[i].val)
        THEN [objs |-> [objs EXCEPT ![o].values = PM_remove(@, name, cs)],
              flag |-> TRUE]
        ELSE [objs |-> objs, flag |-> FALSE]

\* ScriptObject::add_property
ScriptObject_add_property(objs, o, name, get, set, attributes) ==
    [objs EXCEPT ![o].values =
        PM_insert(@, name, new_virtual(get, set, attributes), FALSE)]

\* ScriptObject::add_property_with_case
ScriptObject_add_property_with_case(objs, o, name, get, set, attributes, cs) ==
    [objs EXCEPT ![o].values =
        PM_insert(@, name, new_virtual(get, set, attributes), cs)]

\* ScriptObject::set_attributes: every property when name is None, else the
\* one the name finds without regard to letter case.
set_attributes_of(p, set_attributes, clear_attributes) ==
    [p EXCEPT !.attributes = (@ \ clear_attributes) \cup set_attributes]

set_attributes_all(values, set_attributes, clear_attributes) ==
    [i \in 1..Len(values) |->
        [values[i] EXCEPT !.val =
            set_attributes_of(@, set_attributes, clear_attributes)]]

set_attributes_named(values, name, set_attributes, clear_attributes) ==
    IF PM_index(values, name, FALSE) = 0 THEN values
    ELSE [values EXCEPT ![PM_index(values, name, FALSE)].val =
            set_attributes_of(@, set_attributes, clear_attributes)]

ScriptObject_set_attributes(objs, o, name, set_attributes, clear_attributes) ==
    [objs EXCEPT ![o].values =
        IF name = None
        THEN set_attributes_all(@, set_attributes, clear_attributes)
        ELSE set_attributes_named(@, name[1], set_attributes, clear_attributes)]

\* ScriptObject::set_watcher
ScriptObject_set_watcher(objs, o, name, callback, user_data, cs) ==
    [objs EXCEPT ![o].watchers =
        PM_insert(@, name, Watcher_new(callback, user_data), cs)]

\* ScriptObject::remove_watcher
ScriptObject_remove_watcher(objs, o, name, cs) ==
    [objs |-> [objs EXCEPT ![o].watchers = PM_remove(@, name, cs)],
     flag |-> PM_contains_key(objs[o].watchers, name, cs)]

\* ScriptObject::define_value
ScriptObject_define_value_Set(objs, o, name, value, attributes) ==
    IF PM_get(objs[o].values, name, TRUE) # None
       /\ ~is_overwritable(PM_get(objs[o].values, name, TRUE)[1])
    THEN objs
    ELSE [objs EXCEPT ![o].values =
            PM_insert(@, name, new_stored(value, attributes), TRUE)]
ScriptObject_define_value(objs, o, name, value, attributes) ==
    [objs EXCEPT ![o].values =
        PM_insert(@, name, new_stored(value, attributes), TRUE)]

\* ScriptObject::get_keys: the prototype's keys that no own entry shadows,
\* then the own enumerable keys in table order.
own_enumerable_keys(values) ==
    PM_keys(SelectSeq(values, LAMBDA e : is_enumerable(e.val)))

get_keys_NoShadowFilter(proto_keys, values, cs) ==
    proto_keys \o own_enumerable_keys(values)
get_keys_merge(proto_keys, values, cs) ==
    SelectSeq(proto_keys, LAMBDA k : ~PM_contains_key(values, k, cs))
    \o own_enumerable_keys(values)

RECURSIVE ScriptObject_get_keys(_, _, _)
proto_get_keys(objs, proto, cs) ==
    IF proto.tag = "Object" /\ proto.val \in DOMAIN objs
    THEN ScriptObject_get_keys(objs, proto.val, cs)
    ELSE <<>>

ScriptObject_get_keys(objs, o, cs) ==
    get_keys_merge(proto_get_keys(objs, ScriptObject_proto(objs, o), cs),
                   objs[o].values, cs)

(***************************************************************************)
(* Calls.  Value::call, the call of an object, SuperObject::new and        *)
(* SuperObject::call_method.                                               *)
(***************************************************************************)
\* TObject::call: a function object runs its executable; ScriptObject::call
\* and the other objects return undefined.
Object_call(o, name, this, depth, args) ==
    IF as_executable(o) # None
    THEN [res |-> Executable_exec(o, args),
          calls |-> <<Call(o, name, this, depth, args)>>]
    ELSE [res |-> Ok(Undefined), calls |-> <<>>]

\* Value::call
Value_call(v, name, this, depth, args) ==
    IF v.tag = "Object"
    THEN Object_call(v.val, name, this, depth, args)
    ELSE [res |-> Ok(Undefined), calls |-> <<>>]

\* SuperObject::define_value: nothing is defined on super.
SuperObject_define_value_Forward(objs, o, name, value, attributes) ==
    ScriptObject_define_value(objs, objs[o].this, name, value, attributes)
SuperObject_define_value(objs, o, name, value, attributes) == objs

\* SuperObject::add_property and add_property_with_case
SuperObject_add_property(objs, o, name, get, set, attributes) == objs
SuperObject_add_property_with_case(objs, o, name, get, set, attributes, cs) == objs

\* SuperObject::set_watcher
SuperObject_set_watcher(objs, o, name, callback, user_data, cs) == objs

\* SuperObject::delete
SuperObject_delete(objs, o, name, cs) == [objs |-> objs, flag |-> FALSE]

\* The methods of TObject on an Object, by the class of the object.
Object_define_value(objs, o, name, value, attributes) ==
    IF objs[o].class = "SuperObject"
    THEN SuperObject_define_value(objs, o, name, value, attributes)
    ELSE ScriptObject_define_value(objs, o, name, value, attributes)

Object_add_property(objs, o, name, get, set, attributes) ==
    IF objs[o].class = "SuperObject"
    THEN SuperObject_add_property(objs, o, name, get, set, attributes)
    ELSE ScriptObject_add_property(objs, o, name, get, set, attributes)

Object_add_property_with_case(objs, o, name, get, set, attributes, cs) ==
    IF objs[o].class = "SuperObject"
    THEN SuperObject_add_property_with_case(objs, o, name, get, set, attributes, cs)
    ELSE ScriptObject_add_property_with_case(objs, o, name, get, set, attributes, cs)

Object_set_watcher(objs, o, name, callback, user_data, cs) ==
    IF objs[o].class = "SuperObject"
    THEN SuperObject_set_watcher(objs, o, name, callback, user_data, cs)
    ELSE ScriptObject_set_watcher(objs, o, name, callback, user_data, cs)

Object_delete(objs, o, name, cs) ==
    IF objs[o].class = "SuperObject"
    THEN SuperObject_delete(objs, o, name, cs)
    ELSE ScriptObject_delete(objs, o, name, cs)

\* SuperObject::new
SuperObject_new(this, base_proto) ==
    [class |-> "SuperObject", prototype |-> Undefined, values |-> PM_new,
     interfaces |-> <<>>, watchers |-> PM_new, this |-> this,
     base_proto |-> base_proto]

\* The call of the method search_prototype found, after the getters it ran.
super_call_found(name, args, this, found) ==
    IF found.res.kind # "Ok"
    THEN [res |-> found.res, calls |-> found.calls]
    ELSE LET call == Value_call(found.res.val, name, this, found.depth, args)
         IN  [res |-> call.res, calls |-> found.calls \o call.calls]

\* SuperObject::call_method
SuperObject_call_method(objs, o, name, args, cs) ==
    super_call_found(name, args, objs[o].this,
        search_prototype(objs, super_proto(objs, o), name, objs[o].this, cs))

(***************************************************************************)
(* ToNumber, ToPrimitive and abstract equality (value.rs)                  *)
(***************************************************************************)
\* A u32 is kept as two 16-bit halves, so no intermediate leaves 32 bits.
U16 == 65536

u32_zero == [hi |-> 0, lo |-> 0]

\* n = n.wrapping_shl(k); n |= d   with m = 2^k and d < m
u32_shl_or(n, m, d) ==
    [hi |-> (n.hi * m + ((n.lo * m) \div U16)) % U16,
     lo |-> ((n.lo * m) % U16) + d]

u32_wrapping_neg(n) ==
    IF n.lo = 0
    THEN [hi |-> (U16 - n.hi) % U16, lo |-> 0]
    ELSE [hi |-> U16 - 1 - n.hi, lo |-> U16 - n.lo]

\* n as i32
as_i32(n) ==
    IF n.hi >= U16 \div 2
    THEN (n.hi - U16) * U16 + n.lo
    ELSE n.hi * U16 + n.lo

starts_with(v, p) == Len(v) >= Len(p) /\ SubSeq(v, 1, Len(p)) = p

starts_with_any(v, chars) == v # <<>> /\ v[1] \in chars

RECURSIVE trim_start_matches(_, _)
trim_start_matches(v, chars) ==
    IF starts_with_any(v, chars) THEN trim_start_matches(Tail(v), chars) ELSE v

\* v.strip_prefix(chars).unwrap_or(v)
strip_prefix(v, chars) == IF starts_with_any(v, chars) THEN Tail(v) ELSE v

\* The match on a byte of the hexadecimal branch; -1 is the default arm.
hex_digit(c) ==
    CASE c = "0" -> 0 [] c = "1" -> 1 [] c = "2" -> 2 [] c = "3" -> 3
      [] c = "4" -> 4 [] c = "5" -> 5 [] c = "6" -> 6 [] c = "7" -> 7
      [] c = "8" -> 8 [] c = "9" -> 9
      [] c \in {"a", "A"} -> 10 [] c \in {"b", "B"} -> 11
      [] c \in {"c", "C"} -> 12 [] c \in {"d", "D"} -> 13
      [] c \in {"e", "E"} -> 14 [] c \in {"f", "F"} -> 15
      [] OTHER -> -1

\* for c in v[2..].bytes() { ... }  f64::from(n as i32)
RECURSIVE hex_loop(_, _, _)
hex_loop(v, i, n) ==
    IF i > Len(v) THEN Fin(as_i32(n))
    ELSE IF hex_digit(v[i]) < 0 THEN NaN
    ELSE hex_loop(v, i + 1, u32_shl_or(n, 16, hex_digit(v[i])))

is_octal_digit(c) == c \in {"0", "1", "2", "3", "4", "5", "6", "7"}

\* The guard of the octal branch, without its version test.
octal_guard(v) ==
    /\ \/ starts_with(v, <<"0">>)
       \/ starts_with(v, <<"+", "0">>)
       \/ starts_with(v, <<"-", "0">>)
    /\ \A i \in 2..Len(v) : is_octal_digit(v[i])

RECURSIVE octal_loop(_, _, _)
octal_loop(trimmed, i, n) ==
    IF i > Len(trimmed) THEN n
    ELSE octal_loop(trimmed, i + 1, u32_shl_or(n, 8, hex_digit(trimmed[i])))

octal_number(v, n) ==
    Fin(as_i32(IF starts_with(v, <<"-">>) THEN u32_wrapping_neg(n) ELSE n))

DecimalDigits == {"0", "1", "2", "3", "4", "5", "6", "7", "8", "9"}

RECURSIVE decimal_value(_, _, _)
decimal_value(digits, i, n) ==
    IF i > Len(digits) THEN n
    ELSE decimal_value(digits, i + 1, n * 10 + hex_digit(digits[i]))

signed_number(negative, n) ==
    IF ~negative THEN Fin(n) ELSE IF n = 0 THEN NegZero ELSE Fin(-n)

\* str::parse::<f64>().unwrap_or(NAN).  Of Rust's float grammar the model
\* keeps the signed integers: its strings hold no '.', no exponent and no
\* "nan" or "inf" word, so every other string is a parse error.
parse_f64(v, digits) ==
    IF digits # <<>> /\ \A i \in 1..Len(digits) : digits[i] \in DecimalDigits
    THEN signed_number(starts_with(v, <<"-">>), decimal_value(digits, 1, 0))
    ELSE NaN

\* The default arm of the match on the string.
decimal_number(v) ==
    IF starts_with_any(strip_prefix(v, {"+", "-"}), {"i", "I"})
    THEN NaN
    ELSE parse_f64(trim_start_matches(v, {"\t", "\n", "\r", " "}),
                   strip_prefix(trim_start_matches(v, {"\t", "\n", "\r", " "}),
                                {"+", "-"}))

\* Value::primitive_as_number, the arm of Value::String
string_as_number_HexFromFive(v, version) ==
    IF version >= 5 /\ starts_with(v, <<"0", "x">>)
    THEN hex_loop(v, 3, u32_zero)
    ELSE IF version >= 6 /\ octal_guard(v)
    THEN octal_number(v, octal_loop(trim_start_matches(v, {"+", "-"}), 1, u32_zero))
    ELSE IF v = <<>> THEN NaN
    ELSE decimal_number(v)

string_as_number(v, version) ==
    IF version >= 6 /\ starts_with(v, <<"0", "x">>)
    THEN hex_loop(v, 3, u32_zero)
    ELSE IF version >= 6 /\ octal_guard(v)
    THEN octal_number(v, octal_loop(trim_start_matches(v, {"+", "-"}), 1, u32_zero))
    ELSE IF v = <<>> THEN NaN
    ELSE decimal_number(v)

\* Value::primitive_as_number
primitive_as_number_UndefinedFromSix(v, version) ==
    CASE v.tag \in {"Undefined", "Null"} -> IF version < 6 THEN Fin(0) ELSE NaN
      [] v.tag = "Bool" -> IF v.val THEN Fin(1) ELSE Fin(0)
      [] v.tag = "Number" -> v.val
      [] v.tag = "String" -> string_as_number(v.val, version)
      [] OTHER -> NaN

primitive_as_number(v, version) ==
    CASE v.tag \in {"Undefined", "Null"} -> IF version < 7 THEN Fin(0) ELSE NaN
      [] v.tag = "Bool" -> IF v.val THEN Fin(1) ELSE Fin(0)
      [] v.tag = "Number" -> v.val
      [] v.tag = "String" -> string_as_number(v.val, version)
      [] OTHER -> NaN

\* method.call(name, activation, this, depth + d.max(1), args) of call_method
call_method_found(name, depth, args, this, found) ==
    IF found.res.kind # "Ok"
    THEN [res |-> found.res, calls |-> found.calls]
    ELSE LET call == Value_call(found.res.val, name, this,
                                depth + (IF found.depth > 1 THEN found.depth ELSE 1),
                                args)
         IN  [res |-> call.res, calls |-> found.calls \o call.calls]

\* TObject::call_method: the result and the script functions it ran
TObject_call_method(objs, o, name, depth, args, cs) ==
    call_method_found(name, depth, args, o,
                      search_prototype(objs, Object(o), name, o, cs))

\* Value::to_primitive_num: the result and the script functions it ran
to_primitive_num_Undefined(objs, v, cs) ==
    IF v.tag = "Object"
    THEN TObject_call_method(objs, v.val, "valueOf", 0, <<>>, cs)
    ELSE [res |-> Ok(Undefined), calls |-> <<>>]

to_primitive_num(objs, v, cs) ==
    IF v.tag = "Object"
    THEN TObject_call_method(objs, v.val, "valueOf", 0, <<>>, cs)
    ELSE [res |-> Ok(v), calls |-> <<>>]

\* to_primitive_num(activation)?.primitive_as_number(activation)
primitive_result_as_number(r, version) ==
    IF r.kind # "Ok" THEN r ELSE Ok(primitive_as_number(r.val, version))

\* Value::coerce_to_f64
coerce_to_f64(objs, v, version) ==
    IF v.tag = "Object"
    THEN primitive_result_as_number(
             to_primitive_num(objs, v, is_case_sensitive(version)).res, version)
    ELSE Ok(primitive_as_number(v, version))

\* activation.context.avm1.global_object_cell()
global_object_cell == "o1"

\* Value::abstract_eq, the arm of two numbers
number_eq_NaNAlways(a, b, coerced) ==
    \/ is_nan(a) /\ is_nan(b)
    \/ f64_eq(a, b)

number_eq(a, b, coerced) ==
    \/ ~coerced /\ is_nan(a) /\ is_nan(b)
    \/ f64_eq(a, b)
    \/ f64_eq(a, Fin(0)) /\ f64_eq(b, NegZero)
    \/ f64_eq(a, NegZero) /\ f64_eq(b, Fin(0))

RECURSIVE abstract_eq(_, _, _, _, _)
RECURSIVE abstract_eq_primitive(_, _, _, _, _)
\* Value::abstract_eq without its arms of an object on the left
abstract_eq_primitive_ObjectLast(objs, r, other, object_first, version) ==
    IF r.kind # "Ok" THEN r
    ELSE IF ~is_primitive(r.val) \/ object_first THEN Ok(Bool(FALSE))
    ELSE abstract_eq(objs, other, r.val, TRUE, version)

\* Value::abstract_eq, the arms of an object against a string or a number:
\* r is the result of to_primitive_num on the object.
abstract_eq_primitive(objs, r, other, object_first, version) ==
    IF r.kind # "Ok" THEN r
    ELSE IF ~is_primitive(r.val) THEN Ok(Bool(FALSE))
    ELSE IF object_first
    THEN abstract_eq(objs, r.val, other, TRUE, version)
    ELSE abstract_eq(objs, other, r.val, TRUE, version)

\* Value::abstract_eq: self is a, the arms are tried in the order of the match
abstract_eq(objs, a, b, coerced, version) ==
    IF a.tag = b.tag
    THEN CASE a.tag \in {"Undefined", "Null"} -> Ok(Bool(TRUE))
           [] a.tag = "Number" -> Ok(Bool(number_eq(a.val, b.val, coerced)))
           [] OTHER -> Ok(Bool(a.val = b.val))
    ELSE IF a.tag = "Object" /\ b.tag \in {"Undefined", "Null"}
    THEN Ok(Bool(a.val = global_object_cell))
    ELSE IF a.tag \in {"Undefined", "Null"} /\ b.tag = "Object"
    THEN Ok(Bool(b.val = global_object_cell))
    ELSE IF a.tag \in {"Undefined", "Null"} /\ b.tag \in {"Undefined", "Null"}
    THEN Ok(Bool(TRUE))
    ELSE IF a.tag = "Number" /\ b.tag = "String"
    THEN abstract_eq(objs, a, Number(primitive_as_number(b, version)), TRUE, version)
    ELSE IF a.tag = "String" /\ b.tag = "Number"
    THEN abstract_eq(objs, Number(primitive_as_number(a, version)), b, TRUE, version)
    ELSE IF a.tag = "Bool"
    THEN abstract_eq(objs, Number(primitive_as_number(a, version)), b, TRUE, version)
    ELSE IF b.tag = "Bool"
    THEN abstract_eq(objs, a, Number(primitive_as_number(b, version)), TRUE, version)
    ELSE IF a.tag \in {"String", "Number"} /\ b.tag = "Object"
    THEN abstract_eq_primitive(objs, to_primitive_num(objs, b, is_case_sensitive(version)).res,
                               a, FALSE, version)
    ELSE IF a.tag = "Object" /\ b.tag \in {"String", "Number"}
    THEN abstract_eq_primitive(objs, to_primitive_num(objs, a, is_case_sensitive(version)).res,
                               b, TRUE, version)
    ELSE Ok(Bool(FALSE))

\* The printable ASCII characters in the order of their bytes, from 32 on
\* (dq, sq, bs and bt stand for the two quotes, the backslash and the backtick).
Ascii ==
    <<" ", "!", "dq", "#", "$", "%", "&", "sq", "(", ")", "*", "+", ",", "-", ".", "/",
      "0", "1", "2", "3", "4", "5", "6", "7", "8", "9", ":", ";", "<", "=", ">", "?",
      "@", "A", "B", "C", "D", "E", "F", "G", "H", "I", "J", "K", "L", "M", "N", "O",
      "P", "Q", "R", "S", "T", "U", "V", "W", "X", "Y", "Z", "[", "bs", "]", "^", "_",
      "bt", "a", "b", "c", "d", "e", "f", "g", "h", "i", "j", "k", "l", "m", "n", "o",
      "p", "q", "r", "s", "t", "u", "v", "w", "x", "y", "z", "{", "|", "}", "~">>

\* The byte of a character of a string
byte(c) == 31 + CHOOSE i \in 1..Len(Ascii) : Ascii[i] = c

\* a.bytes().lt(b.bytes())
RECURSIVE bytes_lt(_, _)
bytes_lt(a, b) ==
    IF b = <<>> THEN FALSE
    ELSE IF a = <<>> THEN TRUE
    ELSE IF byte(a[1]) # byte(b[1]) THEN byte(a[1]) < byte(b[1])
    ELSE bytes_lt(Tail(a), Tail(b))

\* Value::abstract_lt, from the two numbers on
abstract_lt_numbers_NaNFalse(num_self, num_other) ==
    IF is_nan(num_self) \/ is_nan(num_other) THEN Ok(Bool(FALSE))
    ELSE Ok(Bool(f64_lt(num_self, num_other)))

abstract_lt_numbers(num_self, num_other) ==
    IF is_nan(num_self) \/ is_nan(num_other) THEN Ok(Undefined)
    ELSE IF \/ f64_eq(num_self, num_other)
            \/ f64_eq(num_self, Fin(0)) /\ f64_eq(num_other, NegZero)
            \/ f64_eq(num_self, NegZero) /\ f64_eq(num_other, Fin(0))
            \/ is_infinite(num_self) /\ is_sign_positive(num_self)
            \/ is_infinite(num_other) /\ is_sign_negative(num_other)
    THEN Ok(Bool(FALSE))
    ELSE IF \/ is_infinite(num_self) /\ is_sign_negative(num_self)
            \/ is_infinite(num_other) /\ is_sign_positive(num_other)
    THEN Ok(Bool(TRUE))
    ELSE Ok(Bool(f64_lt(num_self, num_other)))

\* Value::abstract_lt, from the results of the two to_primitive_num on
abstract_lt_primitives(prim_self, prim_other, version) ==
    IF prim_self.kind # "Ok" THEN prim_self
    ELSE IF prim_other.kind # "Ok" THEN prim_other
    ELSE IF prim_self.val.tag = "String" /\ prim_other.val.tag = "String"
    THEN Ok(Bool(bytes_lt(prim_self.val.val, prim_other.val.val)))
    ELSE abstract_lt_numbers(primitive_as_number(prim_self.val, version),
                             primitive_as_number(prim_other.val, version))

\* Value::abstract_lt
abstract_lt(objs, a, b, version) ==
    abstract_lt_primitives(to_primitive_num(objs, a, is_case_sensitive(version)).res,
                           to_primitive_num(objs, b, is_case_sensitive(version)).res,
                           version)

(***************************************************************************)
(* Scope chains (scope.rs).  scopes is the arena of scope cells; a cell is *)
(* named by its index and NoScope is the absent parent.                    *)
(***************************************************************************)
NoScope == 0

ScopeClass == {"Global", "Target", "Local", "With"}

\* Objects are allocated under the names of ObjectIds, in this order.
ObjectIds == <<"o1", "o2", "o3", "o4", "o5", "o6", "o7", "o8", "o9", "o10">>

fresh_object(objs) == ObjectIds[Cardinality(DOMAIN objs) + 1]

\* ScriptObject::object_cell(mc, proto): the heap with the new object.
allocate_object(objs, id, proto) ==
    [x \in DOMAIN objs \cup {id} |->
        IF x = id THEN ScriptObject_object(proto) ELSE objs[x]]

\* Scope::new
Scope_new(parent, class, values) ==
    [parent |-> parent, class |-> class, values |-> values]

\* Scope::from_global_object
from_global_object(globals) == Scope_new(NoScope, "Global", globals)

\* Scope::new_local_scope, over the object just allocated for its values.
new_local_scope(parent, values) == Scope_new(parent, "Local", values)

\* Scope::new_with_scope
new_with_scope(parent_scope, with_object) == Scope_new(parent_scope, "With", with_object)

\* GcCell::allocate: the cell is the next one of the arena.
GcCell_allocate(scs, cell) == Append(scs, cell)

\* The loop of new_closure_scope.  Its state st is the arena with
\* bottom_scope and top_scope; the link just allocated is the last cell.
closure_link(st, next_scope) ==
    [scopes |-> IF st.top_scope # NoScope
                THEN [st.scopes EXCEPT ![st.top_scope].parent = next_scope]
                ELSE st.scopes,
     bottom_scope |-> IF st.bottom_scope = NoScope THEN next_scope
                      ELSE st.bottom_scope,
     top_scope |-> next_scope]

closure_copy(st, cell) ==
    closure_link([st EXCEPT !.scopes =
                        GcCell_allocate(@, Scope_new(NoScope, cell.class, cell.values))],
                 Len(st.scopes) + 1)

closure_visit_KeepWith(st, parent) == closure_copy(st, st.scopes[parent])
closure_visit(st, parent) ==
    IF st.scopes[parent].class # "With"
    THEN closure_copy(st, st.scopes[parent])
    ELSE st

RECURSIVE closure_loop(_, _)
closure_next(st, parent) ==
    IF st.scopes[parent].parent # NoScope
    THEN closure_loop(st, st.scopes[parent].parent)
    ELSE st

closure_loop(st, parent) == closure_next(closure_visit(st, parent), parent)

\* bottom_scope.unwrap_or_else: a parentless Global scope over a new object.
closure_result(objs, st) ==
    IF st.bottom_scope # NoScope
    THEN [objects |-> objs, scopes |-> st.scopes, res |-> st.bottom_scope]
    ELSE [objects |-> allocate_object(objs, fresh_object(objs), None),
          scopes |-> GcCell_allocate(st.scopes,
                        Scope_new(NoScope, "Global", fresh_object(objs))),
          res |-> Len(st.scopes) + 1]

\* The closure scope as the chain it was given.
new_closure_scope_Reuse(objs, scs, parent) ==
    [objects |-> objs, scopes |-> scs, res |-> parent]

\* Scope::new_closure_scope
new_closure_scope(objs, scs, parent) ==
    closure_result(objs,
        closure_loop([scopes |-> scs, bottom_scope |-> NoScope,
                      top_scope |-> NoScope], parent))

\* The copy with clip for the locals of every link.
target_visit_EveryLink(st, parent, clip) ==
    closure_copy(st, [class |-> st.scopes[parent].class, values |-> clip])

\* The loop of new_target_scope: every link is copied, and the copy of a
\* Target link gets clip for its locals.
target_visit(st, parent, clip) ==
    closure_copy(st, [class |-> st.scopes[parent].class,
                      values |-> IF st.scopes[parent].class = "Target"
                                 THEN clip
                                 ELSE st.scopes[parent].values])

RECURSIVE target_loop(_, _, _)
target_next(st, parent, clip) ==
    IF st.scopes[parent].parent # NoScope
    THEN target_loop(st, st.scopes[parent].parent, clip)
    ELSE st

target_loop(st, parent, clip) ==
    target_next(target_visit(st, parent, clip), parent, clip)

\* Scope::new_target_scope
new_target_scope(objs, scs, parent, clip) ==
    closure_result(objs,
        target_loop([scopes |-> scs, bottom_scope |-> NoScope,
                     top_scope |-> NoScope], parent, clip))

\* self.locals().set(name, value, activation) at the link at, reached
\* through the last branch of Scope::set or not.
Scope_set_locals(objs, scs, at, name, value, cs, overflow_checks, asserted) ==
    [objs |-> TObject_set(objs, scs[at].values, name, value, cs, overflow_checks).objs,
     res |-> TObject_set(objs, scs[at].values, name, value, cs, overflow_checks).res,
     calls |-> TObject_set(objs, scs[at].values, name, value, cs, overflow_checks).calls,
     at |-> at, asserted |-> asserted]

\* The last branch of Scope::set: debug_assert!(false, ...) panics in a
\* build with debug assertions; without them the outermost link is written.
Scope_set_top(objs, scs, self, name, value, cs, overflow_checks, debug_assertions) ==
    IF debug_assertions
    THEN [objs |-> objs, res |-> Panic, calls |-> <<>>, at |-> self,
          asserted |-> TRUE]
    ELSE Scope_set_locals(objs, scs, self, name, value, cs, overflow_checks, TRUE)

\* Scope::set
RECURSIVE Scope_set(_, _, _, _, _, _, _, _)
Scope_set(objs, scs, self, name, value, cs, overflow_checks, debug_assertions) ==
    IF scs[self].class = "Target" \/ has_property(objs, scs[self].values, name, cs)
    THEN Scope_set_locals(objs, scs, self, name, value, cs, overflow_checks, FALSE)
    ELSE IF scs[self].parent # NoScope
    THEN Scope_set(objs, scs, scs[self].parent, name, value, cs, overflow_checks,
                   debug_assertions)
    ELSE Scope_set_top(objs, scs, self, name, value, cs, overflow_checks,
                       debug_assertions)

\* CallableValue
UnCallable(v) == [tag |-> "UnCallable", val |-> v]
Callable(this, v) == [tag |-> "Callable", this |-> this, val |-> v]

\* CallableValue::call_with_default_this
call_with_default_this(c, default_this, name, depth, args) ==
    IF c.tag = "Callable"
    THEN Value_call(c.val, name, c.this, depth, args)
    ELSE Value_call(c.val, name, default_this, depth, args)

\* The test of Scope::resolve on one link.
resolve_found_OwnOnly(objs, scs, self, name, cs) ==
    has_own_property(objs, scs[self].values, name, cs)
resolve_found(objs, scs, self, name, cs) ==
    has_property(objs, scs[self].values, name, cs)

\* self.locals().get(name, activation).map(|v| Callable(self.locals_cell(), v))
resolve_here(objs, scs, self, name, cs) ==
    [res |-> IF TObject_get(objs, scs[self].values, name, cs).res.kind = "Ok"
             THEN Ok(Callable(scs[self].values,
                        TObject_get(objs, scs[self].values, name, cs).res.val))
             ELSE TObject_get(objs, scs[self].values, name, cs).res,
     calls |-> TObject_get(objs, scs[self].values, name, cs).calls,
     at |-> self]

\* Scope::resolve
RECURSIVE Scope_resolve(_, _, _, _, _)
Scope_resolve(objs, scs, self, name, cs) ==
    IF resolve_found(objs, scs, self, name, cs)
    THEN resolve_here(objs, scs, self, name, cs)
    ELSE IF scs[self].parent # NoScope
    THEN Scope_resolve(objs, scs, scs[self].parent, name, cs)
    ELSE [res |-> Ok(UnCallable(Undefined)), calls |-> <<>>, at |-> NoScope]

\* Scope::is_defined
RECURSIVE Scope_is_defined(_, _, _, _, _)
Scope_is_defined(objs, scs, self, name, cs) ==
    IF has_property(objs, scs[self].values, name, cs) THEN TRUE
    ELSE IF scs[self].parent # NoScope
    THEN Scope_is_defined(objs, scs, scs[self].parent, name, cs)
    ELSE FALSE

\* Scope::define
Scope_define(objs, scs, self, name, value) ==
    Object_define_value(objs, scs[self].values, name, value, Attribute_empty)

\* Scope::delete: the heap afterwards, the result and the link it acted on.
RECURSIVE Scope_delete(_, _, _, _, _)
Scope_delete(objs, scs, self, name, cs) ==
    IF has_property(objs, scs[self].values, name, cs)
    THEN [objs |-> Object_delete(objs, scs[self].values, name, cs).objs,
          flag |-> Object_delete(objs, scs[self].values, name, cs).flag,
          at |-> self]
    ELSE IF scs[self].parent # NoScope
    THEN Scope_delete(objs, scs, scs[self].parent, name, cs)
    ELSE [objs |-> objs, flag |-> FALSE, at |-> NoScope]

(***************************************************************************)
(* Operations on script objects as steps.  Each records itself in last.    *)
(***************************************************************************)
NoLast ==
    [op |-> "none", obj |-> NoObject, name |-> "", arg |-> Undefined,
     res |-> Ok(Undefined), flag |-> FALSE, keys |-> <<>>, calls |-> <<>>,
     scope |-> NoScope, other |-> Undefined]

\* object.define_value(name, value, attributes)
DefineValue(o, name, value, attributes) ==
    /\ objects' = ScriptObject_define_value(objects, o, name, value, attributes)
    /\ last' = [NoLast EXCEPT !.op = "define_value", !.obj = o, !.name = name,
                              !.arg = value]
    /\ UNCHANGED swf_version

\* object.add_property(name, get, set, attributes)
AddProperty(o, name, get, set, attributes) ==
    /\ objects' = ScriptObject_add_property(objects, o, name, get, set, attributes)
    /\ last' = [NoLast EXCEPT !.op = "add_property", !.obj = o, !.name = name]
    /\ UNCHANGED swf_version

\* object.set_watcher(name, callback, user_data)
SetWatcher(o, name, callback) ==
    /\ objects' = ScriptObject_set_watcher(objects, o, name, callback, Undefined,
                                           is_case_sensitive(swf_version))
    /\ last' = [NoLast EXCEPT !.op = "set_watcher", !.obj = o, !.name = name]
    /\ UNCHANGED swf_version

\* object.set(name, value)
Set(o, name, value) ==
    \E overflow_checks \in BOOLEAN :
    LET r == TObject_set(objects, o, name, value, is_case_sensitive(swf_version),
                         overflow_checks)
    IN  /\ objects' = r.objs
        /\ last' = [NoLast EXCEPT !.op = "set", !.obj = o, !.name = name,
                                  !.arg = value, !.res = r.res, !.calls = r.calls]
        /\ UNCHANGED swf_version

\* object.delete(name)
Delete(o, name) ==
    LET r == ScriptObject_delete(objects, o, name, is_case_sensitive(swf_version))
    IN  /\ objects' = r.objs
        /\ last' = [NoLast EXCEPT !.op = "delete", !.obj = o, !.name = name,
                                  !.flag = r.flag]
        /\ UNCHANGED swf_version

\* object.get(name)
Get(o, name) ==
    LET r == TObject_get(objects, o, name, is_case_sensitive(swf_version))
    IN  /\ last' = [NoLast EXCEPT !.op = "get", !.obj = o, !.name = name,
                                  !.res = r.res, !.calls = r.calls]
        /\ UNCHANGED <<objects, swf_version>>

\* object.get_keys()
GetKeys(o) ==
    /\ last' = [NoLast EXCEPT !.op = "get_keys", !.obj = o,
                    !.keys = ScriptObject_get_keys(objects, o,
                                                   is_case_sensitive(swf_version))]
    /\ UNCHANGED <<objects, swf_version>>

(***************************************************************************)
(* Spec: the object of the unit tests of script_object.rs (o1, with a      *)
(* prototype o2) under define_value, add_property, set_watcher, set,       *)
(* delete and get, for at most MaxOps operations.                          *)
(***************************************************************************)
MaxOps == 3

Names == {"a", "b"}
StoredAttributes == SUBSET AllAttributes
VirtualAttributes == SUBSET {DONT_DELETE, READ_ONLY}
SetValues == {String(StrReplaced), Null}
Getters == {"fconst", "fthrow"}
Setters == {None, Some("fnew")}
WatcherCallbacks == {"fconst", "fthrow"}

Tick == steps < MaxOps /\ steps' = steps + 1 /\ UNCHANGED <<scopes, scope>>

Init ==
    /\ objects = [o \in {"o1", "o2"} |->
                    ScriptObject_object(IF o = "o1" THEN Some("o2") ELSE None)]
    /\ scopes = <<>>
    /\ scope = NoScope
    /\ swf_version = 6
    /\ last = NoLast
    /\ steps = 0

DoDefineValue ==
    /\ Tick
    /\ \E n \in Names, a \in StoredAttributes :
            DefineValue("o1", n, String(StrInitial), a)

DoAddProperty ==
    /\ Tick
    /\ \E n \in Names, g \in Getters, s \in Setters, a \in VirtualAttributes :
            AddProperty("o1", n, g, s, a)

\* What the prototype holds: a stored value or a getter/setter pair.
DoDefineOnProto ==
    /\ Tick
    /\ \E n \in Names :
            \/ DefineValue("o2", n, String(StrInitial), Attribute_empty)
            \/ AddProperty("o2", n, "fconst", Some("fnew"), Attribute_empty)

DoSetWatcher ==
    /\ Tick
    /\ \E c \in WatcherCallbacks : SetWatcher("o1", "a", c)

DoSet == Tick /\ \E n \in Names, v \in SetValues : Set("o1", n, v)

DoDelete == Tick /\ \E n \in Names : Delete("o1", n)

DoGet == Tick /\ \E n \in Names : Get("o1", n)

Next ==
    \/ DoDefineValue
    \/ DoAddProperty
    \/ DoDefineOnProto
    \/ DoSetWatcher
    \/ DoSet
    \/ DoDelete
    \/ DoGet

Spec == Init /\ [][Next]_vars

(***************************************************************************)
(* Properties of delete and set on a script object (Spec).                 *)
(***************************************************************************)
CS == is_case_sensitive(swf_version)

\* The own property the latest operation named, before the operation ran.
OwnBefore == PM_get(objects[last'.obj].values, last'.name, CS)

\* Every own property of o other than name n, and every other object, is
\* the same before and after the step.
OthersUntouched(o, n) ==
    /\ \A p \in DOMAIN objects \ {o} : objects'[p] = objects[p]
    /\ objects'[o].prototype = objects[o].prototype
    /\ objects'[o].watchers = objects[o].watchers
    /\ \A k \in Names \ {n} :
            PM_get(objects'[o].values, k, CS) = PM_get(objects[o].values, k, CS)

\* C1: delete(name) returns false and changes nothing when name is an own
\* property flagged DONT_DELETE or is not an own property; it returns true
\* and removes the property (and nothing else) when name is an own property
\* without DONT_DELETE.  After a false result on an existing property,
\* get(name) returns what it returned before.
C1_DeleteRespectsDontDelete ==
    [][last'.op = "delete" =>
        LET o == last'.obj
            n == last'.name
        IN  IF OwnBefore # None /\ DONT_DELETE \notin OwnBefore[1].attributes
            THEN /\ last'.flag = TRUE
                 /\ ~PM_contains_key(objects'[o].values, n, CS)
                 /\ Len(objects'[o].values) = Len(objects[o].values) - 1
                 /\ OthersUntouched(o, n)
            ELSE /\ last'.flag = FALSE
                 /\ objects' = objects
                 /\ OwnBefore # None =>
                        TObject_get(objects', o, n, CS).res
                            = TObject_get(objects, o, n, CS).res
    ]_vars

\* A delete has just refused to remove an existing own property.
C1_Witness ==
    /\ last.op = "delete"
    /\ last.flag = FALSE
    /\ PM_contains_key(objects[last.obj].values, last.name, CS)
    /\ TObject_get(objects, last.obj, last.name, CS).res = Ok(String(StrInitial))

\* What a getter-only property reads as: the getter runs once, on the object.
GetterOnlyReads(objs, o, n, getter, v) ==
    LET g == TObject_get(objs, o, n, CS)
    IN  /\ g.calls = <<Call(getter, "[Getter]", o, 0, <<>>)>>
        /\ g.res = Executable_exec(getter, <<>>)
        /\ g.res.val # v

GetterOnlyBefore ==
    /\ OwnBefore # None
    /\ is_virtual(OwnBefore[1])
    /\ OwnBefore[1].setter = None

\* The watcher registered for the name the latest operation is about.
WatcherBefore == PM_get(objects[last'.obj].watchers, last'.name, CS)

\* C2 as claimed: on an own getter-only virtual property, set(name, v)
\* returns Ok and stores nothing, and get(name) still runs the getter and
\* returns its result, never v.
C2_Original ==
    [][(last'.op = "set" /\ GetterOnlyBefore) =>
        /\ last'.res.kind = "Ok"
        /\ objects' = objects
        /\ GetterOnlyReads(objects', last'.obj, last'.name,
                           OwnBefore[1].getter[1], last'.arg)
    ]_vars

\* C2 as amended: set stores nothing and get still runs the getter and
\* returns its result, never v; set returns Ok unless a watcher is
\* registered for name and the watcher throws, or the getter throws when
\* read for the watcher's old value, and then it returns that thrown value.
C2_SetOnGetterOnly ==
    [][(last'.op = "set" /\ GetterOnlyBefore) =>
        LET getter == OwnBefore[1].getter[1]
            old == Executable_exec(getter, <<>>)
            thrown == IF WatcherBefore = None THEN None
                      ELSE IF old.kind = "ThrownValue" THEN Some(old)
                      ELSE IF Executable_exec(WatcherBefore[1].callback, <<>>).kind
                                = "ThrownValue"
                      THEN Some(Executable_exec(WatcherBefore[1].callback, <<>>))
                      ELSE None
        IN  /\ last'.res = (IF thrown = None THEN Ok(Undefined) ELSE thrown[1])
            /\ objects' = objects
            /\ GetterOnlyReads(objects', last'.obj, last'.name, getter, last'.arg)
    ]_vars

\* A set, the third operation on the object, has just been attempted on a
\* getter-only property, which still reads as its getter's result.
C2_Witness ==
    /\ last.op = "set"
    /\ steps = 3
    /\ LET p == PM_get(objects[last.obj].values, last.name, CS)
       IN  /\ p # None
           /\ is_virtual(p[1])
           /\ p[1].setter = None
           /\ p[1].getter = Some("fconst")
    /\ TObject_get(objects, last.obj, last.name, CS).res = Ok(String(StrVirtual))

StoredBefore == OwnBefore # None /\ ~is_virtual(OwnBefore[1])

StoredValueAfter == PM_get(objects'[last'.obj].values, last'.name, CS)[1].data

\* C3 as claimed: set on a stored READ_ONLY property returns Ok and leaves
\* the value unchanged; a stored property flagged only DONT_DELETE is
\* overwritten and get(name) then returns v.
C3_Original ==
    [][(last'.op = "set" /\ StoredBefore) =>
        /\ READ_ONLY \in OwnBefore[1].attributes =>
                last'.res.kind = "Ok" /\ objects' = objects
        /\ OwnBefore[1].attributes = {DONT_DELETE} =>
                /\ StoredValueAfter = Some(last'.arg)
                /\ TObject_get(objects', last'.obj, last'.name, CS).res = Ok(last'.arg)
    ]_vars

\* What set_local stores for value v: v itself without a watcher, else the
\* watcher's return value, or undefined when the watcher fails.
WatchedValue(v) ==
    IF WatcherBefore = None THEN v
    ELSE LET w == Executable_exec(WatcherBefore[1].callback,
                                  <<last'.name, OwnBefore[1].data[1], v, Undefined>>)
         IN  IF w.kind = "Ok" THEN w.val ELSE Undefined

\* C3 as amended: set on a stored READ_ONLY property leaves the value
\* unchanged, and returns Ok unless a watcher registered for name throws; a
\* stored property flagged only DONT_DELETE is overwritten, and get(name)
\* then returns v when no watcher is registered for name, and otherwise
\* the watcher's return value (undefined when the watcher fails).
C3_SetOnStored ==
    [][(last'.op = "set" /\ StoredBefore) =>
        /\ (WatcherBefore = None
                \/ Executable_exec(WatcherBefore[1].callback, <<>>).kind
                        # "ThrownValue")
             => last'.res.kind = "Ok"
        /\ READ_ONLY \in OwnBefore[1].attributes => objects' = objects
        /\ OwnBefore[1].attributes = {DONT_DELETE} =>
                /\ StoredValueAfter = Some(WatchedValue(last'.arg))
                /\ OthersUntouched(last'.obj, last'.name)
                /\ TObject_get(objects', last'.obj, last'.name, CS).res
                        = Ok(WatchedValue(last'.arg))
                /\ WatcherBefore = None => WatchedValue(last'.arg) = last'.arg
    ]_vars

\* A set of null, the third operation on the object, has left a READ_ONLY
\* stored property at its initial value.
C3_Witness ==
    /\ last.op = "set"
    /\ steps = 3
    /\ last.arg = Null
    /\ LET p == PM_get(objects[last.obj].values, last.name, CS)
       IN  /\ p # None
           /\ ~is_virtual(p[1])
           /\ READ_ONLY \in p[1].attributes
           /\ p[1].data = Some(String(StrInitial))

(***************************************************************************)
(* SpecKeys: enumeration.  Three objects in a chain o1 -> o2 -> o3 under   *)
(* define_value, add_property, delete and get_keys, in a case-insensitive  *)
(* (6) or case-sensitive (7) movie, for at most MaxKeyOps operations.      *)
(***************************************************************************)
MaxKeyOps == 4

KeyNames == {"a", "b", "c"}
KeyAttributes == {Attribute_empty, {DONT_ENUM}}
ProtoNames == {"b", "c"}

KeysTick ==
    steps < MaxKeyOps /\ steps' = steps + 1 /\ UNCHANGED <<scopes, scope>>

InitKeys ==
    /\ objects = [o \in {"o1", "o2", "o3"} |->
                    ScriptObject_object(CASE o = "o1" -> Some("o2")
                                          [] o = "o2" -> Some("o3")
                                          [] OTHER -> None)]
    /\ scopes = <<>>
    /\ scope = NoScope
    /\ swf_version \in {6, 7}
    /\ last = NoLast
    /\ steps = 0

KeysDefineValue ==
    /\ KeysTick
    /\ \E n \in KeyNames, a \in KeyAttributes :
            DefineValue("o1", n, String(StrInitial), a)

KeysAddProperty ==
    /\ KeysTick
    /\ \E a \in KeyAttributes : AddProperty("o1", "a", "fconst", None, a)

KeysDefineOnProto ==
    /\ KeysTick
    /\ \E n \in ProtoNames : DefineValue("o2", n, String(StrInitial), Attribute_empty)

\* The end of the chain holds a key that differs from "a" by letter case only.
KeysDefineOnRoot ==
    /\ KeysTick
    /\ DefineValue("o3", "A", String(StrInitial), Attribute_empty)

KeysDelete == KeysTick /\ \E n \in {"a", "b"} : Delete("o1", n)

KeysGetKeys == KeysTick /\ \E o \in {"o1", "o2"} : GetKeys(o)

NextKeys ==
    \/ KeysDefineValue
    \/ KeysAddProperty
    \/ KeysDefineOnProto
    \/ KeysDefineOnRoot
    \/ KeysDelete
    \/ KeysGetKeys

SpecKeys == InitKeys /\ [][NextKeys]_vars

(***************************************************************************)
(* Properties of get_keys (SpecKeys).                                      *)
(***************************************************************************)
\* The own table of the object enumerated last, and its prototype's keys.
KeysOwn == objects[last.obj].values

KeysOfProto == proto_get_keys(objects, ScriptObject_proto(objects, last.obj), CS)

\* k names an entry of the own table, enumerable or not.
KeysInOwnTable(k) == \E i \in 1..Len(KeysOwn) : KeyEq(KeysOwn[i].key, k, CS)

KeysOwnShown == SelectSeq(KeysOwn, LAMBDA e : DONT_ENUM \notin e.val.attributes)

\* C4: get_keys returns the prototype's get_keys result without the keys
\* that exist in the object's own table (enumerable or not), followed by the
\* object's own enumerable keys in insertion order; no key occurs twice.
\* For own keys {a enumerable, b hidden} and a prototype whose keys are
\* {c enumerable} the result is exactly [c, a].
C4_GetKeysOrder ==
    last.op = "get_keys" =>
        /\ last.keys = SelectSeq(KeysOfProto, LAMBDA k : ~KeysInOwnTable(k))
                        \o [i \in 1..Len(KeysOwnShown) |-> KeysOwnShown[i].key]
        /\ \A i, j \in 1..Len(last.keys) : i # j => last.keys[i] # last.keys[j]
        /\ ( /\ PM_keys(KeysOwn) = <<"a", "b">>
             /\ is_enumerable(KeysOwn[1].val)
             /\ ~is_enumerable(KeysOwn[2].val)
             /\ KeysOfProto = <<"c">> )
           => last.keys = <<"c", "a">>

\* The scenario of the claim: own keys a (enumerable) and b (hidden) over a
\* prototype with key c enumerate as [c, a].
C4_Witness ==
    /\ last.op = "get_keys"
    /\ last.obj = "o1"
    /\ PM_keys(objects["o1"].values) = <<"a", "b">>
    /\ ~is_enumerable(objects["o1"].values[2].val)
    /\ PM_keys(objects["o2"].values) = <<"c">>
    /\ last.keys = <<"c", "a">>

(***************************************************************************)
(* SpecScope: the scope chain of an activation.  It starts as the global   *)
(* scope over o1 and is extended by new_local_scope, new_with_scope and    *)
(* Scope::new, replaced by its closure scope or its target scope, or       *)
(* written through with Scope::set, at most MaxScopeOps times.  last.scope *)
(* is the scope the latest operation was given.                            *)
(***************************************************************************)
MaxScopeOps == 4

ScopeObjects == {"o2", "o3"}

ScopeTick == steps < MaxScopeOps /\ steps' = steps + 1 /\ UNCHANGED swf_version

InitScope ==
    /\ objects = [o \in {"o1", "o2", "o3"} |-> ScriptObject_object(None)]
    /\ scopes = <<from_global_object("o1")>>
    /\ scope = 1
    /\ swf_version = 6
    /\ last = NoLast
    /\ steps = 0

\* The activation enters the cell just allocated.
ScopeEntered(op, cell) ==
    /\ scopes' = GcCell_allocate(scopes, cell)
    /\ scope' = Len(scopes) + 1
    /\ last' = [NoLast EXCEPT !.op = op, !.scope = scope]

ScopeNewLocal ==
    /\ ScopeTick
    /\ objects' = allocate_object(objects, fresh_object(objects), None)
    /\ ScopeEntered("new_local_scope", new_local_scope(scope, fresh_object(objects)))

ScopeNewWith ==
    /\ ScopeTick
    /\ \E with_object \in ScopeObjects :
            ScopeEntered("new_with_scope", new_with_scope(scope, with_object))
    /\ UNCHANGED objects

ScopeNew ==
    /\ ScopeTick
    /\ \E parent \in {NoScope, scope}, class \in {"Target", "With"},
          values \in ScopeObjects :
            ScopeEntered("new", Scope_new(parent, class, values))
    /\ UNCHANGED objects

ScopeNewClosureDone(r) ==
    /\ objects' = r.objects
    /\ scopes' = r.scopes
    /\ scope' = r.res
    /\ last' = [NoLast EXCEPT !.op = "new_closure_scope", !.scope = scope]

ScopeNewClosure ==
    /\ ScopeTick
    /\ ScopeNewClosureDone(new_closure_scope(objects, scopes, scope))

\* The activation enters new_target_scope(scope, clip).
ScopeNewTargetDone(clip, r) ==
    /\ objects' = r.objects
    /\ scopes' = r.scopes
    /\ scope' = r.res
    /\ last' = [NoLast EXCEPT !.op = "new_target_scope",
                              !.obj = clip, !.scope = scope]

ScopeNewTarget ==
    /\ ScopeTick
    /\ \E clip \in ScopeObjects :
            ScopeNewTargetDone(clip, new_target_scope(objects, scopes, scope, clip))

\* scope.set("a", "1", activation, this)
ScopeSetDone(r) ==
    /\ objects' = r.objs
    /\ last' = [NoLast EXCEPT !.op = "set", !.name = "a",
                              !.obj = scopes[r.at].values,
                              !.res = r.res, !.flag = r.asserted,
                              !.scope = scope]

ScopeSet ==
    /\ ScopeTick
    /\ \E overflow_checks \in BOOLEAN, debug_assertions \in BOOLEAN :
            ScopeSetDone(Scope_set(objects, scopes, scope, "a",
                                   String(StrReplaced),
                                   is_case_sensitive(swf_version),
                                   overflow_checks, debug_assertions))
    /\ UNCHANGED <<scopes, scope>>

NextScope ==
    \/ ScopeNewLocal
    \/ ScopeNewWith
    \/ ScopeNew
    \/ ScopeNewClosure
    \/ ScopeNewTarget
    \/ ScopeSet

SpecScope == InitScope /\ [][NextScope]_vars

(***************************************************************************)
(* Properties of new_closure_scope (SpecScope).                            *)
(***************************************************************************)
\* The cells of the chain that starts at s, innermost first.
RECURSIVE ScopeChain(_, _)
ScopeChain(scs, s) ==
    IF s = NoScope THEN <<>> ELSE <<s>> \o ScopeChain(scs, scs[s].parent)

\* The links of the chain that starts at s: class and locals object of each.
ScopeLinks(scs, s) ==
    LET chain == ScopeChain(scs, s)
    IN  [i \in 1..Len(chain) |->
            [class |-> scs[chain[i]].class, values |-> scs[chain[i]].values]]

\* C5: new_closure_scope(chain) returns a chain whose links are exactly the
\* non-With links of the input, in the same innermost-to-outermost order,
\* each with the class and the locals object of the link it came from;
\* [with(X), local(Y), target(Z)] yields [local(Y), target(Z)].  When every
\* input link is With, the result is a single parentless Global link over
\* a fresh empty object.
C5_ClosureDropsWith ==
    [][last'.op = "new_closure_scope" =>
        LET input == ScopeLinks(scopes, scope)
            kept == SelectSeq(input, LAMBDA l : l.class # "With")
            out == ScopeLinks(scopes', scope')
        IN  /\ kept # <<>> => out = kept /\ objects' = objects
            /\ kept = <<>> =>
                    /\ Len(out) = 1
                    /\ out[1].class = "Global"
                    /\ out[1].values \notin DOMAIN objects
                    /\ objects'[out[1].values] = ScriptObject_object(None)
                    /\ \A o \in DOMAIN objects : objects'[o] = objects[o]
            /\ (Len(input) = 3 /\ input[1].class = "With"
                    /\ input[2].class = "Local" /\ input[3].class = "Target")
                => out = <<input[2], input[3]>>
    ]_vars

\* The closure scope of [with(o2), local(o4), target(o3)] has just been
\* taken and is [local(o4), target(o3)].
C5_Witness ==
    /\ last.op = "new_closure_scope"
    /\ ScopeLinks(scopes, last.scope)
            = <<[class |-> "With", values |-> "o2"],
                [class |-> "Local", values |-> "o4"],
                [class |-> "Target", values |-> "o3"]>>
    /\ ScopeLinks(scopes, scope)
            = <<[class |-> "Local", values |-> "o4"],
                [class |-> "Target", values |-> "o3"]>>

\* The closure scope of a chain of With links only has just been taken.
C5_AllWithReached ==
    /\ last.op = "new_closure_scope"
    /\ Len(ScopeChain(scopes, last.scope)) = 2
    /\ \A i \in 1..2 : ScopeLinks(scopes, last.scope)[i].class = "With"
    /\ scopes[scope] = Scope_new(NoScope, "Global", "o4")

\* The chain that starts at s has a Target link.
HasTarget(scs, s) ==
    \E i \in 1..Len(ScopeChain(scs, s)) : scs[ScopeChain(scs, s)[i]].class = "Target"

\* C16: every chain built with the constructors of Scope has a Target
\* link, and Scope::set never reaches its last branch, the one with
\* debug_assert!(false, "Scope::set: No top-level movie clip scope").
C16_Original ==
    /\ HasTarget(scopes, scope)
    /\ last.op = "set" => ~last.flag

\* Scope::set has run on the chain [local, global] built by
\* from_global_object and new_local_scope and has reached its last branch.
C16_Witness ==
    /\ last.op = "set"
    /\ last.flag
    /\ Len(ScopeChain(scopes, scope)) = 2
    /\ scopes[scope].class = "Local"
    /\ scopes[scopes[scope].parent].class = "Global"

\* What the constructors keep: a chain made over one with a Target link by
\* new_local_scope, new_with_scope, new_closure_scope, new_target_scope or
\* new with a parent has a Target link, and Scope::set on a chain with a
\* Target link does not reach its last branch.
C16_TargetKept ==
    [][/\ (HasTarget(scopes, scope) /\ scopes'[scope'].parent # NoScope)
            => HasTarget(scopes', scope')
       /\ (HasTarget(scopes, scope)
            /\ last'.op \in {"new_closure_scope", "new_target_scope"})
            => HasTarget(scopes', scope')
       /\ (HasTarget(scopes, scope) /\ last'.op = "set") => ~last'.flag]_vars

\* new_target_scope has put the clip in place of the locals of the Target
\* link of [local, target, global].
C16_TargetReplacedReached ==
    /\ last.op = "new_target_scope"
    /\ Len(ScopeChain(scopes, scope)) = 3
    /\ scopes[ScopeChain(scopes, scope)[2]].class = "Target"
    /\ scopes[ScopeChain(scopes, scope)[2]].values = last.obj
    /\ scopes[ScopeChain(scopes, last.scope)[2]].values # last.obj

\* The links of the input with clip for the locals of the Target links.
TargetLinks(links, clip) ==
    [i \in 1..Len(links) |->
        [class |-> links[i].class,
         values |-> IF links[i].class = "Target" THEN clip ELSE links[i].values]]

\* C31: new_target_scope(chain, clip) returns a chain with as many links
\* as the input and the same classes in the same order; every Target link
\* has clip as its locals and every other link the locals of the input
\* link at its place.
C31_TargetScope ==
    [][last'.op = "new_target_scope" =>
        /\ Len(ScopeChain(scopes', scope')) = Len(ScopeChain(scopes, scope))
        /\ ScopeLinks(scopes', scope')
                = TargetLinks(ScopeLinks(scopes, scope), last'.obj)]_vars

\* The target scope of [with(o3), target(o2), target(o2), global(o1)] for
\* the clip o3 has just been taken: both Target links hold o3.
C31_Witness ==
    /\ last.op = "new_target_scope"
    /\ last.obj = "o3"
    /\ ScopeLinks(scopes, last.scope)
            = <<[class |-> "With", values |-> "o3"],
                [class |-> "Target", values |-> "o2"],
                [class |-> "Target", values |-> "o2"],
                [class |-> "Global", values |-> "o1"]>>
    /\ ScopeLinks(scopes, scope)
            = <<[class |-> "With", values |-> "o3"],
                [class |-> "Target", values |-> "o3"],
                [class |-> "Target", values |-> "o3"],
                [class |-> "Global", values |-> "o1"]>>

\* The cells of the chain that starts at s, as a set.
ScopeCells(scs, s) == {ScopeChain(scs, s)[i] : i \in 1..Len(ScopeChain(scs, s))}

\* C32: new_closure_scope and new_target_scope allocate new links and do
\* not modify their input: every cell that existed keeps its parent, class
\* and locals, and no cell of the input chain is a cell of the returned
\* chain.
C32_FreshLinks ==
    [][last'.op \in {"new_closure_scope", "new_target_scope"} =>
        /\ Len(scopes') >= Len(scopes)
        /\ \A c \in 1..Len(scopes) : scopes'[c] = scopes[c]
        /\ ScopeCells(scopes', scope') \cap ScopeCells(scopes, scope) = {}
        /\ ScopeCells(scopes', scope') \cap (1..Len(scopes)) = {}]_vars

\* The closure scope of [local(o4), global(o1)] has just been taken: two
\* new cells over the same locals objects, the old cells as they were.
C32_Witness ==
    /\ last.op = "new_closure_scope"
    /\ scopes = <<from_global_object("o1"), new_local_scope(1, "o4"),
                  Scope_new(4, "Local", "o4"), Scope_new(NoScope, "Global", "o1")>>
    /\ last.scope = 2
    /\ scope = 3

\* The same for the target scope of a chain with a With link.
C32_TargetReached ==
    /\ last.op = "new_target_scope"
    /\ Len(ScopeChain(scopes, scope)) = 3
    /\ ScopeLinks(scopes, last.scope)[1].class = "With"
    /\ ScopeCells(scopes, scope) \cap ScopeCells(scopes, last.scope) = {}

(***************************************************************************)
(* SpecSuper: the instance o1 over the prototype chain o2 -> o3 -> o4.     *)
(* Methods named m are defined on the levels, super objects are made for   *)
(* o1 at a base prototype, m is called through them and the writing        *)
(* methods of TObject are called on them, at most MaxSuperOps times in     *)
(* all.                                                                    *)
(***************************************************************************)
MaxSuperOps == 4

SuperLevels == {"o1", "o2", "o3", "o4"}
SuperMethods == {"fconst", "fnew"}
SuperWrites == {"set_local", "define_value", "add_property",
                "add_property_with_case", "set_watcher", "delete"}

SuperTick ==
    steps < MaxSuperOps /\ steps' = steps + 1 /\ UNCHANGED <<scopes, scope, swf_version>>

InitSuper ==
    /\ objects = [o \in SuperLevels |->
                    ScriptObject_object(CASE o = "o1" -> Some("o2")
                                          [] o = "o2" -> Some("o3")
                                          [] o = "o3" -> Some("o4")
                                          [] OTHER -> None)]
    /\ scopes = <<>>
    /\ scope = NoScope
    /\ swf_version = 6
    /\ last = NoLast
    /\ steps = 0

\* level.m = function
SuperDefineMethod ==
    /\ SuperTick
    /\ \E o \in SuperLevels, f \in SuperMethods :
            /\ objects' = ScriptObject_define_value(objects, o, "m", Object(f),
                                                    Attribute_empty)
            /\ last' = [NoLast EXCEPT !.op = "define_value", !.obj = o, !.name = "m"]

\* level.m = null, which is not callable
SuperDefinePrimitive ==
    /\ SuperTick
    /\ \E o \in {"o3", "o4"} :
            /\ objects' = ScriptObject_define_value(objects, o, "m", Null,
                                                    Attribute_empty)
            /\ last' = [NoLast EXCEPT !.op = "define_value", !.obj = o, !.name = "m"]

\* SuperObject::new(activation, this, base_proto) for a frame of o1
SuperNew ==
    /\ SuperTick
    /\ \E base_proto \in SuperLevels :
            objects' = [x \in DOMAIN objects \cup {fresh_object(objects)} |->
                            IF x \in DOMAIN objects THEN objects[x]
                            ELSE SuperObject_new("o1", base_proto)]
    /\ last' = [NoLast EXCEPT !.op = "super_new", !.obj = fresh_object(objects)]

\* super.m()
SuperCallMethod ==
    /\ SuperTick
    /\ \E o \in DOMAIN objects :
            /\ objects[o].class = "SuperObject"
            /\ LET r == SuperObject_call_method(objects, o, "m", <<>>,
                                                is_case_sensitive(swf_version))
               IN  last' = [NoLast EXCEPT !.op = "super_call_method", !.obj = o,
                                          !.name = "m", !.res = r.res,
                                          !.calls = r.calls]
    /\ UNCHANGED objects

\* One of the writing methods of TObject, called on an object or on a
\* super proxy: what it leaves of the heap, its result and its flag.
SuperWritten(op, o) ==
    CASE op = "set_local" ->
            [objs |-> Object_set_local(objects, o, "m", Null, o, 0,
                                       is_case_sensitive(swf_version)).objs,
             res |-> Object_set_local(objects, o, "m", Null, o, 0,
                                      is_case_sensitive(swf_version)).res,
             flag |-> FALSE]
      [] op = "define_value" ->
            [objs |-> Object_define_value(objects, o, "m", Null, Attribute_empty),
             res |-> Ok(Undefined), flag |-> FALSE]
      [] op = "add_property" ->
            [objs |-> Object_add_property(objects, o, "m", "fconst", None,
                                          Attribute_empty),
             res |-> Ok(Undefined), flag |-> FALSE]
      [] op = "add_property_with_case" ->
            [objs |-> Object_add_property_with_case(objects, o, "m", "fconst",
                          None, Attribute_empty, is_case_sensitive(swf_version)),
             res |-> Ok(Undefined), flag |-> FALSE]
      [] op = "set_watcher" ->
            [objs |-> Object_set_watcher(objects, o, "m", "fconst", Undefined,
                                         is_case_sensitive(swf_version)),
             res |-> Ok(Undefined), flag |-> FALSE]
      [] op = "delete" ->
            [objs |-> Object_delete(objects, o, "m",
                                    is_case_sensitive(swf_version)).objs,
             res |-> Ok(Undefined),
             flag |-> Object_delete(objects, o, "m",
                                    is_case_sensitive(swf_version)).flag]

\* object.op("m", ...) on the instance o1 or on a super proxy
SuperWrite ==
    /\ SuperTick
    /\ \E op \in SuperWrites, o \in DOMAIN objects :
            /\ o = "o1" \/ objects[o].class = "SuperObject"
            /\ objects' = SuperWritten(op, o).objs
            /\ last' = [NoLast EXCEPT !.op = op, !.obj = o, !.name = "m",
                                      !.res = SuperWritten(op, o).res,
                                      !.flag = SuperWritten(op, o).flag]

NextSuper ==
    \/ SuperDefineMethod
    \/ SuperDefinePrimitive
    \/ SuperNew
    \/ SuperCallMethod
    \/ SuperWrite

SpecSuper == InitSuper /\ [][NextSuper]_vars

(***************************************************************************)
(* Properties of the super method call (SpecSuper).                        *)
(***************************************************************************)
\* The objects from o up its prototype chain, o first.
RECURSIVE ProtoChain(_, _)
ProtoChain(objs, v) ==
    IF v.tag # "Object" \/ v.val \notin DOMAIN objs THEN <<>>
    ELSE <<v.val>> \o ProtoChain(objs, objs[v.val].prototype)

\* The levels that hold an own property m, among the levels of chain.
SuperHolders(chain) ==
    SelectSeq(chain, LAMBDA l : PM_contains_key(objects[l].values, "m", CS))

\* C6: a method call through a super proxy whose base prototype is B looks
\* m up from the prototype of B, never at B itself nor below it, and calls
\* what it finds with this bound to the wrapped instance: it runs the m of
\* the nearest level above B that has one (nothing when no level above B
\* has one, or when that m is not a function).  On the chain
\* o1 -> o2 -> o3 with m on o2 and on o3 and base prototype o2, the m of o3
\* is called on o1.
C6_SuperDispatch ==
    last.op = "super_call_method" =>
        LET sup == objects[last.obj]
            below == ProtoChain(objects, Object(sup.this))
            above == ProtoChain(objects, objects[sup.base_proto].prototype)
            holders == SuperHolders(above)
            method == PM_get(objects[holders[1]].values, "m", CS)[1].data[1]
        IN  /\ \A c \in 1..Len(last.calls) :
                    /\ last.calls[c].this = sup.this
                    /\ \E h \in 1..Len(above) :
                            /\ PM_get(objects[above[h]].values, "m", CS)
                                    = Some(new_stored(Object(last.calls[c].fn),
                                                      Attribute_empty))
                            /\ \A b \in 1..Len(below) :
                                    below[b] = above[h] =>
                                        \E k \in 1..(b - 1) : below[k] = sup.base_proto
            /\ IF holders # <<>> /\ method.tag = "Object"
               THEN last.calls = <<Call(method.val, "m", sup.this,
                                        CHOOSE d \in 0..Len(above) :
                                            above[d + 1] = holders[1], <<>>)>>
               ELSE last.calls = <<>> /\ last.res = Ok(Undefined)
            /\ ( /\ sup.base_proto = "o2"
                 /\ PM_get(objects["o2"].values, "m", CS)
                        = Some(new_stored(Object("fconst"), Attribute_empty))
                 /\ PM_get(objects["o3"].values, "m", CS)
                        = Some(new_stored(Object("fnew"), Attribute_empty)) )
               => last.calls = <<Call("fnew", "m", "o1", 0, <<>>)>>

\* m has just been called through a super proxy of o1 with base prototype
\* o2, with different methods m on o2 and on o3: the m of o3 ran on o1.
C6_Witness ==
    /\ last.op = "super_call_method"
    /\ objects[last.obj].this = "o1"
    /\ objects[last.obj].base_proto = "o2"
    /\ PM_get(objects["o2"].values, "m", CS)
            = Some(new_stored(Object("fconst"), Attribute_empty))
    /\ PM_get(objects["o3"].values, "m", CS)
            = Some(new_stored(Object("fnew"), Attribute_empty))
    /\ last.calls = <<Call("fnew", "m", "o1", 0, <<>>)>>

\* C19: set_local, define_value, add_property, add_property_with_case and
\* set_watcher on a super proxy change nothing: the wrapped object, the
\* base prototype and every other object keep their property tables and
\* watcher tables.  set_local returns Ok, and delete on the proxy returns
\* false and deletes nothing.
C19_SuperWritesAreNoOps ==
    [][(last'.op \in SuperWrites /\ objects[last'.obj].class = "SuperObject") =>
        /\ objects' = objects
        /\ last'.op = "set_local" => last'.res = Ok(Undefined)
        /\ last'.op = "delete" => ~last'.flag]_vars

\* define_value has been called on a super proxy of o1 while o1 and the
\* base prototype of the proxy have no m, and they still have none.
C19_Witness ==
    /\ last.op = "define_value"
    /\ objects[last.obj].class = "SuperObject"
    /\ objects[last.obj].this = "o1"
    /\ ~PM_contains_key(objects["o1"].values, "m", CS)
    /\ ~PM_contains_key(objects[objects[last.obj].base_proto].values, "m", CS)

\* delete has been called on a super proxy of o1 while o1 has an m that
\* can be deleted, and has returned false.
C19_DeleteReached ==
    /\ last.op = "delete"
    /\ objects[last.obj].class = "SuperObject"
    /\ PM_contains_key(objects["o1"].values, "m", CS)
    /\ ~last.flag

\* The same methods on the instance itself do write: define_value has put
\* an m on o1.
C19_InstanceWrittenReached ==
    /\ last.op = "define_value"
    /\ last.obj = "o1"
    /\ PM_get(objects["o1"].values, "m", CS) = Some(new_stored(Null, Attribute_empty))

(***************************************************************************)
(* SpecNumber: coerce_to_f64 as a function of the movie's version and of   *)
(* one primitive value.  Init draws the version and the value; the one     *)
(* step applies the conversion.                                            *)
(***************************************************************************)
MaxStrLen == 4

NumberChars == {"0", "7", "8", "x", "F", "g", "-", " "}
NumberVersions == {5, 6, 7}

\* Strings of eight and more hexadecimal digits, beyond MaxStrLen.
LongHex ==
    {<<"0", "x", "7", "F", "F", "F", "F", "F", "F", "F">>,
     <<"0", "x", "8", "0", "0", "0", "0", "0", "0", "0">>,
     <<"0", "x", "F", "F", "F", "F", "F", "F", "F", "F">>,
     <<"0", "x", "1", "0", "0", "0", "0", "0", "0", "0", "0">>,
     <<"0", "x", "a", "B", "c", "D", "e", "f">>}

NumberStrings ==
    LongHex \cup UNION {[1..k -> NumberChars] : k \in 0..MaxStrLen}

NumberInputs ==
    {Undefined, Null, Bool(TRUE), Bool(FALSE)} \cup {String(s) : s \in NumberStrings}

InitNumber ==
    /\ objects = [o \in {"o1"} |-> ScriptObject_object(None)]
    /\ scopes = <<>>
    /\ scope = NoScope
    /\ swf_version \in NumberVersions
    /\ \E v \in NumberInputs : last = [NoLast EXCEPT !.op = "input", !.arg = v]
    /\ steps = 0

\* value.coerce_to_f64(activation)
NumberCoerce ==
    /\ last.op = "input"
    /\ last' = [last EXCEPT !.op = "coerce_to_f64",
                            !.res = coerce_to_f64(objects, last.arg, swf_version)]
    /\ steps' = steps + 1
    /\ UNCHANGED <<objects, scopes, scope, swf_version>>

NextNumber == NumberCoerce

SpecNumber == InitNumber /\ [][NextNumber]_vars

HexChars ==
    {"0", "1", "2", "3", "4", "5", "6", "7", "8", "9",
     "a", "b", "c", "d", "e", "f", "A", "B", "C", "D", "E", "F"}

\* The string is "0x" followed by at least one character.
HasHexPrefix(s) == Len(s) >= 3 /\ s[1] = "0" /\ s[2] = "x"

HexDigitsOf(s) == SubSeq(s, 3, Len(s))

AllHex(d) == \A i \in 1..Len(d) : d[i] \in HexChars

\* The value of at most seven hexadecimal digits.
RECURSIVE HexValue(_)
HexValue(d) ==
    IF d = <<>> THEN 0
    ELSE HexValue(SubSeq(d, 1, Len(d) - 1)) * 16 + hex_digit(d[Len(d)])

\* The value of the digits modulo 2^32, read as a signed 32-bit integer.
Low32Signed(d) ==
    IF Len(d) < 8 THEN HexValue(d)
    ELSE LET w == SubSeq(d, Len(d) - 7, Len(d))
             top == hex_digit(w[1])
         IN  (IF top >= 8 THEN top - 16 ELSE top) * 268435456 + HexValue(Tail(w))

\* The hexadecimal digits of n >= 0 as numbers, without leading zeros.
RECURSIVE Nibbles(_)
Nibbles(n) == IF n = 0 THEN <<>> ELSE Append(Nibbles(n \div 16), n % 16)

RECURSIVE StripZeros(_)
StripZeros(d) == IF d # <<>> /\ d[1] = 0 THEN StripZeros(Tail(d)) ELSE d

DigitValues(d) == [i \in 1..Len(d) |-> hex_digit(d[i])]

CoercedString == last.op = "coerce_to_f64" /\ last.arg.tag = "String"

HexFFByVersion ==
    last.arg.val = <<"0", "x", "F", "F">>
        => last.res = Ok(IF swf_version >= 6 THEN Fin(255) ELSE NaN)

NonHexIsNaN ==
    (swf_version >= 6 /\ HasHexPrefix(last.arg.val)
        /\ ~AllHex(HexDigitsOf(last.arg.val)))
        => last.res = Ok(NaN)

\* C10 as stated: coerce_to_f64("0xFF") is 255 from version 6 on and NaN
\* below; from version 6 on "0x" followed by hexadecimal digits yields the
\* value of the digits, and a non-hexadecimal character yields NaN.
C10_Original ==
    CoercedString =>
        /\ HexFFByVersion
        /\ NonHexIsNaN
        /\ (swf_version >= 6 /\ HasHexPrefix(last.arg.val)
                /\ AllHex(HexDigitsOf(last.arg.val)))
            => /\ last.res.kind = "Ok"
               /\ last.res.val.k = "fin"
               /\ last.res.val.n >= 0
               /\ Nibbles(last.res.val.n)
                      = StripZeros(DigitValues(HexDigitsOf(last.arg.val)))

\* C10: coerce_to_f64("0xFF") is 255 from version 6 on and NaN below; from
\* version 6 on "0x" followed by hexadecimal digits yields the value of the
\* digits modulo 2^32 read as a signed 32-bit integer (the value itself
\* below 2^31), and a non-hexadecimal character after the prefix yields NaN.
C10_HexString ==
    CoercedString =>
        /\ HexFFByVersion
        /\ NonHexIsNaN
        /\ (swf_version >= 6 /\ HasHexPrefix(last.arg.val)
                /\ AllHex(HexDigitsOf(last.arg.val)))
            => last.res = Ok(Fin(Low32Signed(HexDigitsOf(last.arg.val))))

\* "0xFFFFFFFF" has been coerced in a version 6 movie and gave -1.
C10_Witness ==
    /\ CoercedString
    /\ swf_version = 6
    /\ last.arg.val = <<"0", "x", "F", "F", "F", "F", "F", "F", "F", "F">>
    /\ last.res = Ok(Fin(-1))

(***************************************************************************)
(* SpecValue: conversions and comparisons of values over a heap of three   *)
(* objects.  o1 is the global object; o2 and o3 get, lose and inherit      *)
(* valueOf.  A conversion or a comparison is the last step of a behaviour. *)
(***************************************************************************)
MaxValueOps == 2

ValueObjects == {"o1", "o2", "o3"}
ValueVersions == {5, 6, 7, 8}

\* What o2.valueOf is set to: four functions and a value that is no function.
ValueOfs == {Object("fone"), Object("fconst"), Object("fobj"), Object("fthrow"), Null}
ValueGetters == {"fconst", "fthrow"}

StrOne == <<"1">>
StrHexOne == <<"0", "x", "1">>

EqValues ==
    {Undefined, Null, Bool(TRUE), Bool(FALSE),
     Number(NaN), Number(Fin(0)), Number(NegZero), Number(Fin(1)),
     Number(Infinity), Number(NegInfinity),
     String(<<>>), String(StrOne), String(StrHexOne), String(StrVirtual),
     Object("o1"), Object("o2"), Object("o3")}

\* The conversions and comparisons: the last step of a behaviour.
ValueQueries == {"coerce_to_f64", "abstract_eq", "to_primitive_num", "abstract_lt"}

ValueTick ==
    /\ steps < MaxValueOps
    /\ last.op \notin ValueQueries
    /\ steps' = steps + 1
    /\ UNCHANGED <<scopes, scope, swf_version>>

InitValue ==
    /\ objects = [o \in ValueObjects |-> ScriptObject_object(None)]
    /\ scopes = <<>>
    /\ scope = NoScope
    /\ swf_version \in ValueVersions
    /\ last = NoLast
    /\ steps = 0

\* o2.valueOf = v
ValueDefineValueOf ==
    /\ ValueTick
    /\ \E v \in ValueOfs :
            objects' = ScriptObject_define_value(objects, "o2", "valueOf", v,
                                                 Attribute_empty)
    /\ last' = [NoLast EXCEPT !.op = "define_value", !.obj = "o2", !.name = "valueOf"]

\* o3.valueOf = function returning 1
ValueDefineOnProto ==
    /\ ValueTick
    /\ objects' = ScriptObject_define_value(objects, "o3", "valueOf", Object("fone"),
                                            Attribute_empty)
    /\ last' = [NoLast EXCEPT !.op = "define_value", !.obj = "o3", !.name = "valueOf"]

\* o2.addProperty("valueOf", getter, null)
ValueAddProperty ==
    /\ ValueTick
    /\ \E getter \in ValueGetters :
            objects' = ScriptObject_add_property(objects, "o2", "valueOf", getter,
                                                 None, Attribute_empty)
    /\ last' = [NoLast EXCEPT !.op = "add_property", !.obj = "o2", !.name = "valueOf"]

\* o2.__proto__ = o3, or o2.__proto__ = o2
ValueSetProto ==
    /\ ValueTick
    /\ \E p \in {"o2", "o3"}, overflow_checks \in BOOLEAN :
            objects' = TObject_set(objects, "o2", "__proto__", Object(p),
                                   is_case_sensitive(swf_version),
                                   overflow_checks).objs
    /\ last' = [NoLast EXCEPT !.op = "set", !.obj = "o2", !.name = "__proto__"]

\* value.coerce_to_f64(activation)
ValueCoerce ==
    /\ last.op \notin ValueQueries
    /\ \E v \in EqValues :
            last' = [NoLast EXCEPT !.op = "coerce_to_f64", !.arg = v,
                                   !.res = coerce_to_f64(objects, v, swf_version)]
    /\ UNCHANGED <<objects, scopes, scope, swf_version, steps>>

\* a.abstract_eq(b, activation, coerced)
ValueAbstractEq ==
    /\ last.op \notin ValueQueries
    /\ \E a \in EqValues, b \in EqValues, coerced \in BOOLEAN :
            last' = [NoLast EXCEPT !.op = "abstract_eq", !.arg = a, !.other = b,
                                   !.flag = coerced,
                                   !.res = abstract_eq(objects, a, b, coerced,
                                                       swf_version)]
    /\ UNCHANGED <<objects, scopes, scope, swf_version, steps>>

\* value.to_primitive_num(activation)
ValueToPrimitiveDone(v, r) ==
    last' = [NoLast EXCEPT !.op = "to_primitive_num", !.arg = v,
                          !.res = r.res, !.calls = r.calls]

ValueToPrimitive ==
    /\ last.op \notin ValueQueries
    /\ \E v \in EqValues :
            ValueToPrimitiveDone(v, to_primitive_num(objects, v,
                                        is_case_sensitive(swf_version)))
    /\ UNCHANGED <<objects, scopes, scope, swf_version, steps>>

\* a.abstract_lt(b, activation)
ValueAbstractLt ==
    /\ last.op \notin ValueQueries
    /\ \E a \in EqValues, b \in EqValues :
            last' = [NoLast EXCEPT !.op = "abstract_lt", !.arg = a, !.other = b,
                                   !.res = abstract_lt(objects, a, b, swf_version)]
    /\ UNCHANGED <<objects, scopes, scope, swf_version, steps>>

NextValue ==
    \/ ValueAbstractLt
    \/ ValueToPrimitive
    \/ ValueDefineValueOf
    \/ ValueDefineOnProto
    \/ ValueAddProperty
    \/ ValueSetProto
    \/ ValueCoerce
    \/ ValueAbstractEq

SpecValue == InitValue /\ [][NextValue]_vars

\* C7: a top-level comparison gives the same result, or the same error,
\* with its operands exchanged.
C7_AbstractEqSymmetric ==
    (last.op = "abstract_eq" /\ ~last.flag)
        => last.res = abstract_eq(objects, last.other, last.arg, FALSE, swf_version)

\* The number 1 has been compared to o2, whose valueOf returns 1: true.
C7_Witness ==
    /\ last.op = "abstract_eq"
    /\ ~last.flag
    /\ last.arg = Number(Fin(1))
    /\ last.other = Object("o2")
    /\ PM_get(objects["o2"].values, "valueOf", CS) # None
    /\ last.res = Ok(Bool(TRUE))

\* The operand is a string or an object that coerce_to_f64 turns into NaN.
CoercesToNaN(v) ==
    /\ v.tag \in {"String", "Bool", "Object"}
    /\ coerce_to_f64(objects, v, swf_version) = Ok(NaN)

\* C8: NaN compared to NaN is true in a direct comparison (coerced = false)
\* and false when coerced = true; a top-level comparison of the number NaN
\* to a string, boolean or object that coerces to NaN is false.
C8_NaNEquality ==
    last.op = "abstract_eq" =>
        /\ (last.arg = Number(NaN) /\ last.other = Number(NaN))
            => last.res = Ok(Bool(~last.flag))
        /\ (~last.flag /\ last.arg = Number(NaN) /\ CoercesToNaN(last.other))
            => last.res = Ok(Bool(FALSE))
        /\ (~last.flag /\ CoercesToNaN(last.arg) /\ last.other = Number(NaN))
            => last.res = Ok(Bool(FALSE))

\* NaN has been compared at top level to o2, whose valueOf returns a string
\* that is no number: false.
C8_Witness ==
    /\ last.op = "abstract_eq"
    /\ ~last.flag
    /\ last.arg = Number(NaN)
    /\ last.other = Object("o2")
    /\ CoercesToNaN(Object("o2"))
    /\ last.res = Ok(Bool(FALSE))

\* The first object that has an own valueOf on the prototype chain of v, v
\* included: "none" when the chain ends without one, "cycle" when the chain
\* does not end within n more links.
RECURSIVE ValueOfHolder(_, _)
ValueOfHolder(v, n) ==
    IF v.tag # "Object" \/ v.val \notin DOMAIN objects THEN "none"
    ELSE IF PM_contains_key(objects[v.val].values, "valueOf", CS) THEN v.val
    ELSE IF n = 0 THEN "cycle"
    ELSE ValueOfHolder(objects[v.val].prototype, n - 1)

HolderOf(v) == ValueOfHolder(v, Cardinality(DOMAIN objects))

HolderEntry(v) == PM_get(objects[HolderOf(v)].values, "valueOf", CS)[1]

IsFunction(v) == v.tag = "Object" /\ v.val \in FuncIds

\* The lookup of valueOf on the object does not yield a function.
NoCallableValueOf(v) ==
    /\ v.tag = "Object"
    /\ \/ HolderOf(v) \in {"none", "cycle"}
       \/ is_virtual(HolderEntry(v))
       \/ ~IsFunction(HolderEntry(v).data[1])

\* The getter of the valueOf found throws.
GetterThrows(v) ==
    /\ HolderOf(v) \notin {"none", "cycle"}
    /\ is_virtual(HolderEntry(v))
    /\ Executable_exec(HolderEntry(v).getter[1], <<>>).kind = "ThrownValue"

UndefinedNumber == Ok(IF swf_version >= 7 THEN NaN ELSE Fin(0))

UndefinedNullByVersion ==
    last.arg \in {Undefined, Null} => last.res = UndefinedNumber

\* C9 as stated: undefined and null coerce to NaN from version 7 on and to 0
\* below, and an object with no callable valueOf coerces to the same number
\* as undefined.
C9_Original ==
    last.op = "coerce_to_f64" =>
        /\ UndefinedNullByVersion
        /\ NoCallableValueOf(last.arg) => last.res = UndefinedNumber

\* C9: undefined and null coerce to NaN from version 7 on and to 0 below; an
\* object with no callable valueOf coerces to the same number as undefined
\* when the lookup of valueOf succeeds, and coerce_to_f64 returns the error
\* of the lookup when it fails: PrototypeRecursionLimit on a cyclic chain
\* without valueOf, the thrown value when a getter of valueOf throws.
C9_UndefinedNullObject ==
    last.op = "coerce_to_f64" =>
        /\ UndefinedNullByVersion
        /\ NoCallableValueOf(last.arg) =>
              last.res = IF HolderOf(last.arg) = "cycle" THEN PrototypeRecursionLimit
                         ELSE IF GetterThrows(last.arg)
                         THEN ThrownValue(String(StrThrown))
                         ELSE UndefinedNumber

\* o2, its own prototype and without valueOf, has been coerced: the lookup
\* failed.
C9_Witness ==
    /\ last.op = "coerce_to_f64"
    /\ last.arg = Object("o2")
    /\ HolderOf(last.arg) = "cycle"
    /\ last.res = PrototypeRecursionLimit

\* o2, whose valueOf is null, has been coerced in a version 6 movie: 0.
C9_NullValueOfReached ==
    /\ last.op = "coerce_to_f64"
    /\ last.arg = Object("o2")
    /\ swf_version = 6
    /\ HolderOf(last.arg) = "o2"
    /\ ~is_virtual(HolderEntry(last.arg))
    /\ last.res = Ok(Fin(0))

\* C11: to_primitive_num of a value that is no object returns the value
\* itself and runs no script function, in every version.
C11_ToPrimitiveOfPrimitive ==
    (last.op = "to_primitive_num" /\ is_primitive(last.arg))
        => (last.res = Ok(last.arg) /\ last.calls = <<>>)

\* to_primitive_num has been applied to the string "1" and returned it.
C11_Witness ==
    /\ last.op = "to_primitive_num"
    /\ last.arg = String(StrOne)
    /\ last.res = Ok(String(StrOne))
    /\ last.calls = <<>>

\* a is before b in the lexicographic order of their bytes.
LexLess(a, b) ==
    \E k \in 1..Len(b) :
        /\ \A i \in 1..(k - 1) : i <= Len(a) /\ a[i] = b[i]
        /\ (k > Len(a) \/ byte(a[k]) < byte(b[k]))

LtPrimSelf == to_primitive_num(objects, last.arg, CS).res
LtPrimOther == to_primitive_num(objects, last.other, CS).res
LtNumSelf == primitive_as_number(LtPrimSelf.val, swf_version)
LtNumOther == primitive_as_number(LtPrimOther.val, swf_version)

IsZero(f) == f \in {Fin(0), NegZero}
IsFinite(f) == f.k \in {"fin", "nzero"}

\* C12: when both to_primitive_num succeed, abstract_lt is the order of the
\* bytes for two strings; otherwise it is Undefined when the number of either
\* operand is NaN, and otherwise a boolean: never true both ways, false on
\* two zeros of either sign, true from -Infinity to a finite number and from
\* a finite number to Infinity, false from Infinity and to -Infinity.
C12_AbstractLt ==
    (last.op = "abstract_lt" /\ LtPrimSelf.kind = "Ok" /\ LtPrimOther.kind = "Ok") =>
        IF LtPrimSelf.val.tag = "String" /\ LtPrimOther.val.tag = "String"
        THEN last.res = Ok(Bool(LexLess(LtPrimSelf.val.val, LtPrimOther.val.val)))
        ELSE IF is_nan(LtNumSelf) \/ is_nan(LtNumOther)
        THEN last.res = Ok(Undefined)
        ELSE /\ last.res \in {Ok(Bool(TRUE)), Ok(Bool(FALSE))}
             /\ ~(/\ last.res = Ok(Bool(TRUE))
                  /\ abstract_lt(objects, last.other, last.arg, swf_version)
                         = Ok(Bool(TRUE)))
             /\ (IsZero(LtNumSelf) /\ IsZero(LtNumOther)) => last.res = Ok(Bool(FALSE))
             /\ (LtNumSelf = NegInfinity /\ IsFinite(LtNumOther))
                    => last.res = Ok(Bool(TRUE))
             /\ (IsFinite(LtNumSelf) /\ LtNumOther = Infinity)
                    => last.res = Ok(Bool(TRUE))
             /\ (LtNumSelf = Infinity \/ LtNumOther = NegInfinity)
                    => last.res = Ok(Bool(FALSE))

\* The number 1 has been compared to o2, whose valueOf returns a string that
\* is no number: Undefined.
C12_Witness ==
    /\ last.op = "abstract_lt"
    /\ last.arg = Number(Fin(1))
    /\ last.other = Object("o2")
    /\ LtPrimOther = Ok(String(StrVirtual))
    /\ last.res = Ok(Undefined)

\* Two strings have been compared and the first is before the second.
C12_StringsReached ==
    /\ last.op = "abstract_lt"
    /\ last.arg = String(StrOne)
    /\ last.other = String(StrVirtual)
    /\ last.res = Ok(Bool(TRUE))

(***************************************************************************)
(* SpecChain: get and set of the name x on the first object of a long      *)
(* prototype chain.  The objects are named "1", "2", ... in the order of   *)
(* the chain; the chain ends at the last one until ChainClose makes the    *)
(* first object the prototype of the last.  x is a stored value or a       *)
(* getter/setter pair on some objects of the chain.                        *)
(***************************************************************************)
MaxChainOps == 3

ChainLens == {2, U8_MAX - 1, U8_MAX, U8_MAX + 1}
ChainPlaces == {1, 2, U8_MAX, U8_MAX + 1}

ChainLen == Cardinality(DOMAIN objects)

ChainSetters == {"fconst", "fthrow"}

ChainTick ==
    /\ steps < MaxChainOps
    /\ steps' = steps + 1
    /\ UNCHANGED <<scopes, scope, swf_version>>

InitChain ==
    /\ \E len \in ChainLens :
            objects = [o \in {ToString(i) : i \in 1..len} |->
                          ScriptObject_object(
                              IF o = ToString(len) THEN None
                              ELSE Some(ToString(1 + CHOOSE i \in 1..len : ToString(i) = o)))]
    /\ scopes = <<>>
    /\ scope = NoScope
    /\ swf_version \in {6, 7}
    /\ last = NoLast
    /\ steps = 0

\* object.define_value("x", "1", empty) on an object of the chain
ChainDefineValue ==
    /\ ChainTick
    /\ \E i \in ChainPlaces :
            /\ i <= ChainLen
            /\ objects' = ScriptObject_define_value(objects, ToString(i), "x",
                                                    String(StrOne), Attribute_empty)
            /\ last' = [NoLast EXCEPT !.op = "define_value", !.obj = ToString(i),
                                      !.name = "x"]

\* last.__proto__ = first
ChainClose ==
    /\ ChainTick
    /\ \E overflow_checks \in BOOLEAN :
            objects' = TObject_set(objects, ToString(ChainLen), "__proto__",
                                   Object("1"), is_case_sensitive(swf_version),
                                   overflow_checks).objs
    /\ last' = [NoLast EXCEPT !.op = "set", !.obj = ToString(ChainLen),
                              !.name = "__proto__"]

\* first.get("x")
ChainGetDone(r) ==
    last' = [NoLast EXCEPT !.op = "get", !.obj = "1", !.name = "x",
                          !.res = r.res, !.calls = r.calls]

ChainGet ==
    /\ ChainTick
    /\ ChainGetDone(TObject_get(objects, "1", "x", is_case_sensitive(swf_version)))
    /\ UNCHANGED objects

\* object.add_property("x", setter, setter, empty) on an object of the chain
ChainAddProperty ==
    /\ ChainTick
    /\ \E i \in ChainPlaces, f \in ChainSetters :
            /\ i <= ChainLen
            /\ objects' = ScriptObject_add_property(objects, ToString(i), "x",
                                                    f, Some(f), Attribute_empty)
            /\ last' = [NoLast EXCEPT !.op = "add_property", !.obj = ToString(i),
                                      !.name = "x"]

\* first.set("x", "1")
ChainSetDone(r) ==
    /\ objects' = r.objs
    /\ last' = [NoLast EXCEPT !.op = "set", !.obj = "1", !.name = "x",
                              !.arg = String(StrOne), !.res = r.res,
                              !.calls = r.calls]

ChainSet ==
    /\ ChainTick
    /\ \E overflow_checks \in BOOLEAN :
            ChainSetDone(TObject_set(objects, "1", "x", String(StrOne),
                                     is_case_sensitive(swf_version),
                                     overflow_checks))

NextChain ==
    \/ ChainDefineValue
    \/ ChainAddProperty
    \/ ChainClose
    \/ ChainGet
    \/ ChainSet

SpecChain == InitChain /\ [][NextChain]_vars

\* The object at place i of the chain has no own x.
ChainLacks(i) == ~PM_contains_key(objects[ToString(i)].values, "x", CS)

ChainHolders == {i \in 1..ChainLen : ~ChainLacks(i)}

\* The place of the first object that has an own x.
ChainFirst == CHOOSE i \in ChainHolders : \A j \in ChainHolders : i <= j

ChainClosed == objects[ToString(ChainLen)].prototype = Object("1")

\* The own x of the object at place i, and what reading it gives: the
\* stored value, or what its getter returns or throws.
ChainProperty(i) == PM_get(objects[ToString(i)].values, "x", CS)[1]

ChainValue(i) ==
    IF ChainProperty(i).data # None THEN Ok(ChainProperty(i).data[1])
    ELSE IF ChainProperty(i).getter = Some("fconst") THEN Ok(String(StrVirtual))
    ELSE ThrownValue(String(StrThrown))

\* The places of the objects whose own x is virtual.
ChainVirtuals == {i \in ChainHolders : ChainProperty(i).getter # None}

\* C13: get returns the value of the first object that has the name when
\* fewer than 255 objects without it come before; Undefined when no object
\* has it and the chain ends after fewer than 255 objects; and
\* PrototypeRecursionLimit when 255 objects without the name are visited,
\* on a chain that long or on a cyclic one.
C13_GetTerminates ==
    last.op = "get" =>
        IF ChainHolders # {}
        THEN IF ChainFirst - 1 < U8_MAX
             THEN last.res = ChainValue(ChainFirst)
             ELSE last.res = PrototypeRecursionLimit
        ELSE IF ~ChainClosed /\ ChainLen < U8_MAX
             THEN last.res = Ok(Undefined)
             ELSE last.res = PrototypeRecursionLimit

\* get has been called on a cyclic chain of two objects without x and
\* returned the recursion limit error.
C13_Witness ==
    /\ last.op = "get"
    /\ ChainLen = 2
    /\ ChainClosed
    /\ ChainHolders = {}
    /\ last.res = PrototypeRecursionLimit

\* get found x on the 255th object of a chain.
C13_FoundAtLimitReached ==
    /\ last.op = "get"
    /\ ChainHolders = {U8_MAX}
    /\ last.res = Ok(String(StrOne))

\* C14: set of a name the receiver does not own always terminates, and on
\* a cyclic prototype chain with no virtual property of that name it fails
\* with the recursion limit error.
C14_Original ==
    (last.op = "set" /\ last.name = "x" /\ ChainLacks(1)) =>
        /\ last.res \notin {Panic, Diverges}
        /\ (ChainClosed /\ ChainVirtuals = {}) => last.res = PrototypeRecursionLimit

\* set has been called on a cyclic chain of two objects without x, in a
\* build without overflow checks, and never returned.
C14_Witness ==
    /\ last.op = "set"
    /\ last.name = "x"
    /\ ChainLen = 2
    /\ ChainClosed
    /\ ChainHolders = {}
    /\ last.res = Diverges

\* set has been called on a chain of 256 objects without x, in a build with
\* overflow checks, and panicked.
C14_PanicReached ==
    /\ last.op = "set"
    /\ last.name = "x"
    /\ ChainLen = U8_MAX + 1
    /\ ~ChainClosed
    /\ ChainHolders = {}
    /\ last.res = Panic

\* What set does on a chain without a virtual x when the receiver has no
\* x: it stores x in the receiver on an open chain of at most 255 objects,
\* panics or stores on a longer open one, and panics or never returns on a
\* cyclic one.  The recursion limit error is never returned.
C14_SetOutcomes ==
    [][(last'.op = "set" /\ last'.name = "x" /\ ChainLacks(1)
            /\ ChainVirtuals = {}) =>
        /\ last'.res # PrototypeRecursionLimit
        /\ (~ChainClosed /\ ChainLen <= U8_MAX) =>
                last'.res = Ok(Undefined) /\ ~ChainLacks(1)'
        /\ (~ChainClosed /\ ChainLen > U8_MAX) =>
                \/ last'.res = Panic /\ UNCHANGED objects
                \/ last'.res = Ok(Undefined) /\ ~ChainLacks(1)'
        /\ ChainClosed => last'.res \in {Panic, Diverges} /\ UNCHANGED objects]_vars

\* The last operation ran a setter that threw.
SetterThrew ==
    \E i \in 1..Len(last.calls) :
        last.calls[i].name = "[Setter]" /\ last.calls[i].fn = "fthrow"

\* C17: a value thrown by a setter that runs during set(name, v) is
\* returned as Err(ThrownValue), whether the receiver owns the virtual
\* property or inherits it.
C17_Original ==
    (last.op = "set" /\ last.name = "x" /\ SetterThrew) =>
        last.res = ThrownValue(String(StrThrown))

\* set has run the throwing setter of a virtual x of the receiver's
\* prototype and returned Ok.
C17_Witness ==
    /\ last.op = "set"
    /\ last.name = "x"
    /\ ChainHolders = {2}
    /\ ChainVirtuals = {2}
    /\ SetterThrew
    /\ last.res = Ok(Undefined)

\* What set does with what a setter throws: it is returned when the
\* receiver owns the virtual property and dropped, with Ok returned, when
\* the property is inherited.
C17_SetterOutcomes ==
    (last.op = "set" /\ last.name = "x" /\ SetterThrew) =>
        IF 1 \in ChainVirtuals
        THEN last.res = ThrownValue(String(StrThrown))
        ELSE last.res = Ok(Undefined)

\* set has run the throwing setter of the receiver's own virtual x and
\* returned what it threw.
C17_OwnReached ==
    /\ last.op = "set"
    /\ last.name = "x"
    /\ 1 \in ChainVirtuals
    /\ SetterThrew
    /\ last.res = ThrownValue(String(StrThrown))

\* The place of the first object whose own x is virtual.
ChainFirstVirtual == CHOOSE i \in ChainVirtuals : \A j \in ChainVirtuals : i <= j

\* The callbacks of a set whose only one is the setter f, run on the
\* receiver with the value v after the crawl passed depth objects.
ChainSetterRan(calls, f, depth, v) ==
    calls = <<Call(f, "[Setter]", "1", depth % (U8_MAX + 1), <<v>>)>>

\* C28: set(x, v) on a receiver without own x invokes the setter of a
\* virtual x of its prototype chain with this = the receiver and the
\* argument v and gives the receiver no own x; with no virtual x on the
\* chain v is stored as own x of the receiver and no prototype changes.
C28_Original ==
    [][(last'.op = "set" /\ last'.name = "x" /\ ChainLacks(1)) =>
        IF ChainVirtuals # {}
        THEN /\ ChainSetterRan(last'.calls,
                    ChainProperty(ChainFirstVirtual).setter[1],
                    ChainFirstVirtual - 1, last'.arg)
             /\ ChainLacks(1)'
        ELSE /\ last'.calls = <<>>
             /\ PM_get(objects'["1"].values, "x", CS) =
                    Some(new_stored(last'.arg, Attribute_empty))
             /\ \A o \in DOMAIN objects \ {"1"} : objects'[o] = objects[o]]_vars

\* set has been called on a cyclic chain of two objects without x, in a
\* build with overflow checks, and panicked with nothing stored.
C28_Witness ==
    /\ last.op = "set"
    /\ last.name = "x"
    /\ ChainLen = 2
    /\ ChainClosed
    /\ ChainHolders = {}
    /\ last.res = Panic

\* What set does when the receiver has no own x.  With a virtual x on the
\* chain it runs the setter of the first one on the receiver with the
\* value, changes no object and returns Ok, also past a stored x of a
\* nearer prototype and on a cyclic chain.  With none it stores the value
\* in the receiver and changes no other object whenever it returns; on a
\* cyclic chain, and on an open one of more than 255 objects in a build
\* with overflow checks, it does not return and nothing is stored.
C28_SetOutcomes ==
    [][(last'.op = "set" /\ last'.name = "x" /\ ChainLacks(1)) =>
        IF ChainVirtuals # {}
        THEN /\ ChainSetterRan(last'.calls,
                    ChainProperty(ChainFirstVirtual).setter[1],
                    ChainFirstVirtual - 1, last'.arg)
             /\ last'.res = Ok(Undefined)
             /\ UNCHANGED objects
        ELSE /\ last'.calls = <<>>
             /\ IF last'.res = Ok(Undefined)
                THEN /\ ~ChainClosed
                     /\ PM_get(objects'["1"].values, "x", CS) =
                            Some(new_stored(last'.arg, Attribute_empty))
                     /\ \A o \in DOMAIN objects \ {"1"} : objects'[o] = objects[o]
                ELSE /\ last'.res \in {Panic, Diverges}
                     /\ ChainClosed \/ ChainLen > U8_MAX
                     /\ UNCHANGED objects]_vars

\* set has run the setter of the virtual x of the 256th object of the
\* chain on the receiver, past the stored x of the second.
C28_ShadowedSetterReached ==
    /\ last.op = "set"
    /\ last.name = "x"
    /\ ChainLacks(1)
    /\ ChainHolders = {2, U8_MAX + 1}
    /\ ChainVirtuals = {U8_MAX + 1}
    /\ Len(last.calls) = 1
    /\ last.calls[1].this = "1"
    /\ last.calls[1].depth = U8_MAX

(***************************************************************************)
(* SpecInstance: is_instance_of on graphs of prototypes and interfaces.    *)
(* o1, o2 and o3 are plain objects and c1 is a constructor; any of them    *)
(* can be made the prototype of any other, implement c1, or be             *)
(* c1.prototype.                                                           *)
(***************************************************************************)
MaxInstanceOps == 3

InstanceObjects == {"o1", "o2", "o3", "c1"}
InstanceVersions == {6, 7}

InstanceTick ==
    /\ steps < MaxInstanceOps
    /\ last.op # "is_instance_of"
    /\ steps' = steps + 1
    /\ UNCHANGED <<scopes, scope, swf_version>>

InitInstance ==
    /\ objects = [o \in InstanceObjects |-> ScriptObject_object(None)]
    /\ scopes = <<>>
    /\ scope = NoScope
    /\ swf_version \in InstanceVersions
    /\ last = NoLast
    /\ steps = 0

\* o.__proto__ = p
InstanceSetProto ==
    /\ InstanceTick
    /\ \E o \in InstanceObjects, p \in InstanceObjects, overflow_checks \in BOOLEAN :
            /\ objects' = TObject_set(objects, o, "__proto__", Object(p),
                                      is_case_sensitive(swf_version),
                                      overflow_checks).objs
            /\ last' = [NoLast EXCEPT !.op = "set", !.obj = o, !.name = "__proto__"]

\* o.set_interfaces([c1])
InstanceSetInterfaces ==
    /\ InstanceTick
    /\ \E o \in InstanceObjects :
            /\ objects' = ScriptObject_set_interfaces(objects, o, <<"c1">>)
            /\ last' = [NoLast EXCEPT !.op = "set_interfaces", !.obj = o]

\* c1.prototype = p
InstanceDefinePrototype ==
    /\ InstanceTick
    /\ \E p \in InstanceObjects :
            objects' = ScriptObject_define_value(objects, "c1", "prototype",
                                                 Object(p), Attribute_empty)
    /\ last' = [NoLast EXCEPT !.op = "define_value", !.obj = "c1",
                              !.name = "prototype"]

\* c1.prototype is given a getter that throws
InstanceAddPrototypeGetter ==
    /\ InstanceTick
    /\ objects' = ScriptObject_add_property(objects, "c1", "prototype", "fthrow",
                                            None, Attribute_empty)
    /\ last' = [NoLast EXCEPT !.op = "add_property", !.obj = "c1",
                              !.name = "prototype"]

\* o.is_instance_of(activation, constructor, prototype)
InstanceIsInstanceOfDone(o, constructor, prototype, r) ==
    last' = [NoLast EXCEPT !.op = "is_instance_of", !.obj = o,
                          !.arg = Object(constructor),
                          !.other = Object(prototype),
                          !.res = r.res, !.calls = r.calls]

InstanceIsInstanceOf ==
    /\ last.op # "is_instance_of"
    /\ \E o \in InstanceObjects, constructor \in InstanceObjects,
          prototype \in InstanceObjects :
            InstanceIsInstanceOfDone(o, constructor, prototype,
                is_instance_of(objects, o, constructor, prototype, swf_version))
    /\ UNCHANGED <<objects, scopes, scope, swf_version, steps>>

NextInstance ==
    \/ InstanceSetProto
    \/ InstanceSetInterfaces
    \/ InstanceDefinePrototype
    \/ InstanceAddPrototypeGetter
    \/ InstanceIsInstanceOf

SpecInstance == InitInstance /\ [][NextInstance]_vars

\* The objects n prototype links or fewer above the objects of from.
RECURSIVE InstanceAbove(_, _)
InstanceAbove(from, n) ==
    IF n = 0 THEN {}
    ELSE {objects[o].prototype.val : o \in {p \in from : objects[p].prototype.tag = "Object"}}
         \cup InstanceAbove(
                {objects[o].prototype.val :
                    o \in {p \in from : objects[p].prototype.tag = "Object"}}, n - 1)

\* The prototype chain of o: every object above it.
InstanceChain(o) == InstanceAbove({o}, Cardinality(InstanceObjects))

\* The prototype chain of o runs into a cycle: no object of it is the last.
InstanceCyclic(o) ==
    /\ InstanceChain(o) # {}
    /\ \A p \in InstanceChain(o) : objects[p].prototype.tag = "Object"

\* No object of the prototype chain of o implements an interface that counts.
InstanceNoInterfaces(o) ==
    \/ swf_version < 7
    \/ \A p \in InstanceChain(o) : objects[p].interfaces = <<>>

\* C15: is_instance_of terminates on every graph of prototypes and
\* interfaces, and returns false on a prototype chain with a cycle that
\* does not hold the prototype searched for.
C15_Original ==
    last.op = "is_instance_of" =>
        /\ last.res # Diverges
        /\ (/\ InstanceCyclic(last.obj)
            /\ last.other.val \notin InstanceChain(last.obj)
            /\ InstanceNoInterfaces(last.obj)) => last.res = Ok(Bool(FALSE))

\* is_instance_of has been called on an object whose prototype is its own
\* prototype, for a prototype that is not on that chain, and never returned.
C15_Witness ==
    /\ last.op = "is_instance_of"
    /\ last.obj = "o1"
    /\ objects["o1"].prototype = Object("o2")
    /\ objects["o2"].prototype = Object("o2")
    /\ last.other = Object("o3")
    /\ last.res = Diverges

\* What is_instance_of does: on a chain without interfaces that count, true
\* when the prototype is on the chain, false when the chain ends without
\* it, and no return when the chain is cyclic without it.
C15_InstanceOutcomes ==
    (last.op = "is_instance_of" /\ InstanceNoInterfaces(last.obj)) =>
        IF last.other.val \in InstanceChain(last.obj)
        THEN last.res = Ok(Bool(TRUE))
        ELSE IF InstanceCyclic(last.obj)
        THEN last.res = Diverges
        ELSE last.res = Ok(Bool(FALSE))

\* is_instance_of found the constructor among the interfaces of a prototype.
C15_InterfaceReached ==
    /\ last.op = "is_instance_of"
    /\ swf_version >= 7
    /\ last.arg = Object("c1")
    /\ last.other.val \notin InstanceChain(last.obj)
    /\ last.res = Ok(Bool(TRUE))

\* is_instance_of returned what the getter of an interface's prototype threw.
C15_ThrownReached ==
    /\ last.op = "is_instance_of"
    /\ last.res = ThrownValue(String(StrThrown))

\* The interfaces of p that count: its list from version 7 on.
InstanceInterfaces(p) ==
    IF swf_version >= 7
    THEN {objects[p].interfaces[i] : i \in 1..Len(objects[p].interfaces)}
    ELSE {}

\* What get("prototype") on an interface gives.
InstancePrototype(iface) == TObject_get(objects, iface, "prototype", CS).res

\* The objects one step from p: its proto, and the prototype property of
\* each of its interfaces that count.
InstanceEdges(p) ==
    {objects[q].prototype.val : q \in {r \in {p} : objects[r].prototype.tag = "Object"}}
        \cup {InstancePrototype(iface).val.val :
                iface \in {i \in InstanceInterfaces(p) :
                            /\ InstancePrototype(i).kind = "Ok"
                            /\ InstancePrototype(i).val.tag = "Object"}}

\* The objects n steps or fewer from the objects of from, these included.
RECURSIVE InstanceReach(_, _)
InstanceReach(from, n) ==
    IF n = 0 THEN from
    ELSE InstanceReach(from \cup UNION {InstanceEdges(p) : p \in from}, n - 1)

\* The nodes is_instance_of on o can come to: the proto of o and what is
\* reachable from it.
InstanceNodes(o) == InstanceReach(InstanceEdges(o) \cap InstanceChain(o), Cardinality(InstanceObjects))

\* No node comes back to itself, and every read of a prototype property
\* on the way returns.
InstanceAcyclic(o) ==
    \A p \in InstanceNodes(o) :
        /\ p \notin InstanceReach(InstanceEdges(p), Cardinality(InstanceObjects))
        /\ \A iface \in InstanceInterfaces(p) : InstancePrototype(iface).kind = "Ok"

\* C35: on an acyclic graph is_instance_of(constructor, prototype) is
\* true exactly when prototype is reachable from the proto of the object
\* through proto links and, from version 7 on, through the prototype
\* property of the interfaces of a reachable node, or, from version 7 on,
\* constructor is an interface of a reachable node; below version 7 the
\* interfaces do not count.
C35_InstanceOf ==
    (last.op = "is_instance_of" /\ InstanceAcyclic(last.obj)) =>
        /\ last.res = Ok(Bool(
                \/ last.other.val \in InstanceNodes(last.obj)
                \/ \E p \in InstanceNodes(last.obj) :
                        last.arg.val \in InstanceInterfaces(p)))
        /\ swf_version < 7 =>
                last.res = Ok(Bool(last.other.val \in InstanceChain(last.obj)))

\* o1.is_instance_of(o1, o3) is true in version 7 through the prototype
\* property of the interface c1 of o2, the proto of o1.
C35_Witness ==
    /\ last.op = "is_instance_of"
    /\ swf_version = 7
    /\ last.obj = "o1"
    /\ last.arg = Object("o1")
    /\ last.other = Object("o3")
    /\ InstanceChain("o1") = {"o2"}
    /\ objects["o2"].interfaces = <<"c1">>
    /\ InstancePrototype("c1") = Ok(Object("o3"))
    /\ InstanceAcyclic("o1")
    /\ last.res = Ok(Bool(TRUE))

\* The same call in version 6 is false.
C35_VersionSixReached ==
    /\ last.op = "is_instance_of"
    /\ swf_version = 6
    /\ last.obj = "o1"
    /\ last.other = Object("o3")
    /\ InstanceChain("o1") = {"o2"}
    /\ objects["o2"].interfaces = <<"c1">>
    /\ TObject_get(objects, "c1", "prototype", CS).res = Ok(Object("o3"))
    /\ last.res = Ok(Bool(FALSE))

(***************************************************************************)
(* SpecLocal: reading back what was defined.  o1 has the prototype o2;     *)
(* values and getters are defined on both under names that differ in       *)
(* letter case, as the empty name and as __proto__, in a movie of version  *)
(* 6 or 7.  A get or a get_local is the last step of a behaviour.          *)
(***************************************************************************)
MaxLocalOps == 2

LocalObjects == {"o1", "o2"}
LocalNames == {"a", "A"}
LocalSetNames == {"a", "A", "", "__proto__"}
LocalVersions == {6, 7}
LocalValues == {String(StrInitial), String(StrReplaced)}
LocalAttributes == {Attribute_empty, {READ_ONLY}}
\* A getter that returns, one that throws, one that fails otherwise, and
\* an object that is not a function.
LocalGetters == {"fconst", "fthrow", "ferr", "o2"}
LocalQueries == {"get", "get_local"}

LocalTick ==
    /\ steps < MaxLocalOps
    /\ last.op \notin LocalQueries
    /\ steps' = steps + 1
    /\ UNCHANGED <<scopes, scope, swf_version>>

InitLocal ==
    /\ objects = [o \in LocalObjects |->
                    ScriptObject_object(IF o = "o1" THEN Some("o2") ELSE None)]
    /\ scopes = <<>>
    /\ scope = NoScope
    /\ swf_version \in LocalVersions
    /\ last = NoLast
    /\ steps = 0

\* o.define_value(name, value, attributes)
LocalDefineValue ==
    /\ LocalTick
    /\ \E o \in LocalObjects, n \in LocalSetNames, v \in LocalValues,
          a \in LocalAttributes :
            /\ o = "o2" => n \in LocalNames /\ a = Attribute_empty
            /\ objects' = ScriptObject_define_value(objects, o, n, v, a)
            /\ last' = [NoLast EXCEPT !.op = "define_value", !.obj = o,
                                      !.name = n, !.arg = v]

\* o.add_property(name, getter, setter, empty)
LocalAddProperty ==
    /\ LocalTick
    /\ \E o \in LocalObjects, n \in LocalNames, g \in LocalGetters,
          set \in {None, Some("fnew")} :
            /\ o = "o2" => g = "fconst"
            /\ objects' = ScriptObject_add_property(objects, o, n, g, set,
                                                    Attribute_empty)
            /\ last' = [NoLast EXCEPT !.op = "add_property", !.obj = o, !.name = n]

\* o1.set_watcher(name, callback, undefined)
LocalSetWatcher ==
    /\ LocalTick
    /\ \E n \in LocalNames :
            /\ objects' = ScriptObject_set_watcher(objects, "o1", n, "fconst",
                                Undefined, is_case_sensitive(swf_version))
            /\ last' = [NoLast EXCEPT !.op = "set_watcher", !.obj = "o1", !.name = n]

\* o1.set(name, value, activation)
LocalSet ==
    /\ LocalTick
    /\ \E n \in LocalSetNames, v \in LocalValues, overflow_checks \in BOOLEAN :
            LET r == TObject_set(objects, "o1", n, v,
                                 is_case_sensitive(swf_version), overflow_checks)
            IN  /\ objects' = r.objs
                /\ last' = [NoLast EXCEPT !.op = "set", !.obj = "o1", !.name = n,
                                          !.arg = v, !.res = r.res,
                                          !.calls = r.calls]

\* o1.get(name, activation)
LocalGet ==
    /\ last.op \notin LocalQueries
    /\ \E n \in LocalSetNames :
            LET r == TObject_get(objects, "o1", n, is_case_sensitive(swf_version))
            IN  last' = [NoLast EXCEPT !.op = "get", !.obj = "o1", !.name = n,
                                       !.res = r.res, !.calls = r.calls]
    /\ UNCHANGED <<objects, scopes, scope, swf_version, steps>>

\* o1.get_local(name, activation, o1, 0)
LocalGetLocal ==
    /\ last.op \notin LocalQueries
    /\ \E n \in LocalNames :
            LET r == ScriptObject_get_local(objects, "o1", n, "o1", 0,
                                            is_case_sensitive(swf_version))
            IN  last' = [NoLast EXCEPT !.op = "get_local", !.obj = "o1",
                                       !.name = n, !.flag = r.some,
                                       !.res = r.res, !.calls = r.calls]
    /\ UNCHANGED <<objects, scopes, scope, swf_version, steps>>

NextLocal ==
    \/ LocalDefineValue
    \/ LocalAddProperty
    \/ LocalSetWatcher
    \/ LocalSet
    \/ LocalGet
    \/ LocalGetLocal

SpecLocal == InitLocal /\ [][NextLocal]_vars

\* The own entries of o that name n in the movie's case rule.
LocalEntries(objs, o, n) ==
    SelectSeq(objs[o].values,
              LAMBDA e : IF swf_version > 6 THEN e.key = n
                         ELSE Lower(e.key) = Lower(n))

\* The own property of o that a lookup of n finds; only where one exists.
LocalProperty(objs, o, n) == LocalEntries(objs, o, n)[1].val

\* C18: get_local on an own virtual property returns Some(Ok(v)) when the
\* getter returns v, Some(Err(ThrownValue(e))) when it throws e and
\* Some(Ok(Undefined)) when it fails otherwise; on an own stored property
\* it returns the stored value and runs no script; on an absent name it
\* returns None.
C18_GetLocal ==
    last.op = "get_local" =>
        IF LocalEntries(objects, "o1", last.name) = <<>>
        THEN ~last.flag
        ELSE IF LocalProperty(objects, "o1", last.name).data # None
        THEN /\ last.flag
             /\ last.res = Ok(LocalProperty(objects, "o1", last.name).data[1])
             /\ last.calls = <<>>
        ELSE /\ LocalProperty(objects, "o1", last.name).getter = Some("fconst")
                => last.flag /\ last.res = Ok(String(StrVirtual))
             /\ LocalProperty(objects, "o1", last.name).getter = Some("fthrow")
                => last.flag /\ last.res = ThrownValue(String(StrThrown))
             /\ LocalProperty(objects, "o1", last.name).getter = Some("ferr")
                => last.flag /\ last.res = Ok(Undefined)

\* get_local has run a getter that failed with an error that is not a
\* thrown value and has returned Some(Ok(Undefined)).
C18_Witness ==
    /\ last.op = "get_local"
    /\ LocalEntries(objects, "o1", last.name) # <<>>
    /\ LocalProperty(objects, "o1", last.name).getter = Some("ferr")
    /\ last.flag
    /\ last.res = Ok(Undefined)

\* get_local has returned what a getter threw.
C18_ThrownReached ==
    /\ last.op = "get_local"
    /\ last.flag
    /\ last.res = ThrownValue(String(StrThrown))

\* get_local has returned None for a name that o1 lacks and o2 has.
C18_AbsentReached ==
    /\ last.op = "get_local"
    /\ ~last.flag
    /\ LocalEntries(objects, "o1", last.name) = <<>>
    /\ LocalEntries(objects, "o2", last.name) # <<>>

\* get_local has returned None for a virtual property whose getter is not
\* a function.
C18_NotExecutableReached ==
    /\ last.op = "get_local"
    /\ ~last.flag
    /\ LocalEntries(objects, "o1", last.name) # <<>>
    /\ LocalProperty(objects, "o1", last.name).getter = Some("o2")

\* No own key of o1 differs from n in letter case only.
LocalNoCaseVariant(objs, n) ==
    \A i \in 1..Len(objs["o1"].values) :
        Lower(objs["o1"].values[i].key) = Lower(n) => objs["o1"].values[i].key = n

\* n is fresh on o1: neither o1 nor its prototype has it, it is not
\* __proto__, and no watcher is registered for it.
LocalFresh(objs, n) ==
    /\ ~has_property(objs, "o1", n, is_case_sensitive(swf_version))
    /\ PM_get(objs["o1"].watchers, n, is_case_sensitive(swf_version)) = None

\* What o1.get(n) returns on the heap objs.
LocalRead(objs, n) == TObject_get(objs, "o1", n, is_case_sensitive(swf_version)).res

C20_CaseVariantReached ==
    /\ last.op = "define_value"
    /\ last.obj = "o1"
    /\ last.name = "a"
    /\ swf_version = 6
    /\ Len(objects["o1"].values) = 2
    /\ objects["o1"].values[1].key = "A"
    /\ LocalRead(objects, "a") = Ok(String(StrVirtual))

\* define_value("__proto__") has stored an entry that get("__proto__")
\* does not read.
C20_ProtoReached ==
    /\ last.op = "define_value"
    /\ last.name = "__proto__"
    /\ LocalRead(objects, "__proto__") = Ok(Object("o2"))

\* set("") has stored nothing.
C20_EmptyNameReached ==
    /\ last.op = "set"
    /\ last.name = ""
    /\ LocalRead(objects, "") = Ok(Undefined)

(***************************************************************************)
(* SpecCase: one object without a prototype, written and read under the    *)
(* names a and A in a movie of version 6 (names fold) or 7 (names are      *)
(* exact).                                                                 *)
(***************************************************************************)
MaxCaseOps == 3

CaseNames == {"a", "A"}
CaseVersions == {6, 7}
CaseValues == {String(StrInitial), String(StrReplaced)}
CaseFlags == {<<{READ_ONLY}, {}>>, <<{}, {READ_ONLY}>>, <<{DONT_DELETE}, {}>>}
CaseOps == {"define_value", "add_property", "set_attributes", "delete",
            "set", "get"}

CaseTick ==
    /\ steps < MaxCaseOps
    /\ steps' = steps + 1
    /\ UNCHANGED <<scopes, scope, swf_version>>

InitCase ==
    /\ objects = [o \in {"o1"} |-> ScriptObject_object(None)]
    /\ scopes = <<>>
    /\ scope = NoScope
    /\ swf_version \in CaseVersions
    /\ last = NoLast
    /\ steps = 0

\* o1.define_value(name, value, empty)
CaseDefineValue ==
    /\ CaseTick
    /\ \E n \in CaseNames, v \in CaseValues :
            /\ objects' = ScriptObject_define_value(objects, "o1", n, v,
                                                    Attribute_empty)
            /\ last' = [NoLast EXCEPT !.op = "define_value", !.obj = "o1",
                                      !.name = n, !.arg = v]

\* o1.add_property(name, getter, Some(setter), empty)
CaseAddProperty ==
    /\ CaseTick
    /\ \E n \in CaseNames :
            /\ objects' = ScriptObject_add_property(objects, "o1", n, "fconst",
                                                    Some("fnew"), Attribute_empty)
            /\ last' = [NoLast EXCEPT !.op = "add_property", !.obj = "o1",
                                      !.name = n]

\* o1.set_attributes(Some(name), set, clear)
CaseSetAttributes ==
    /\ CaseTick
    /\ \E n \in CaseNames, f \in CaseFlags :
            /\ objects' = ScriptObject_set_attributes(objects, "o1", Some(n),
                                                      f[1], f[2])
            /\ last' = [NoLast EXCEPT !.op = "set_attributes", !.obj = "o1",
                                      !.name = n]

\* o1.set_attributes(None, DONT_ENUM, empty)
CaseSetAttributesAll ==
    /\ CaseTick
    /\ objects' = ScriptObject_set_attributes(objects, "o1", None,
                                              {DONT_ENUM}, {})
    /\ last' = [NoLast EXCEPT !.op = "set_attributes_all", !.obj = "o1"]

\* o1.delete(activation, name)
CaseDelete ==
    /\ CaseTick
    /\ \E n \in CaseNames :
            LET r == ScriptObject_delete(objects, "o1", n,
                                         is_case_sensitive(swf_version))
            IN  /\ objects' = r.objs
                /\ last' = [NoLast EXCEPT !.op = "delete", !.obj = "o1",
                                          !.name = n, !.flag = r.flag]

\* o1.set(name, value, activation)
CaseSet ==
    /\ CaseTick
    /\ \E n \in CaseNames, v \in CaseValues, overflow_checks \in BOOLEAN :
            LET r == TObject_set(objects, "o1", n, v,
                                 is_case_sensitive(swf_version), overflow_checks)
            IN  /\ objects' = r.objs
                /\ last' = [NoLast EXCEPT !.op = "set", !.obj = "o1", !.name = n,
                                          !.arg = v, !.res = r.res,
                                          !.calls = r.calls]

\* o1.get(name, activation)
CaseGet ==
    /\ CaseTick
    /\ \E n \in CaseNames :
            LET r == TObject_get(objects, "o1", n, is_case_sensitive(swf_version))
            IN  last' = [NoLast EXCEPT !.op = "get", !.obj = "o1", !.name = n,
                                       !.res = r.res, !.calls = r.calls]
    /\ UNCHANGED objects

NextCase ==
    \/ CaseDefineValue
    \/ CaseAddProperty
    \/ CaseSetAttributes
    \/ CaseSetAttributesAll
    \/ CaseDelete
    \/ CaseSet
    \/ CaseGet

SpecCase == InitCase /\ [][NextCase]_vars

\* The other spelling of a name.
CaseOther(n) == IF n = "a" THEN "A" ELSE "a"

\* The entry of o1 stored under exactly the key k.
CaseEntry(objs, k) == PM_get(objs["o1"].values, k, TRUE)

\* How many entries of o1 are spelled as n up to letter case.
CaseCount(objs, n) ==
    Len(SelectSeq(objs["o1"].values, LAMBDA e : Lower(e.key) = Lower(n)))

\* What a read of the entry under exactly the key k gives.
CaseReadOf(objs, k) ==
    IF CaseEntry(objs, k) = None THEN Ok(Undefined)
    ELSE IF is_virtual(CaseEntry(objs, k)[1]) THEN Ok(String(StrVirtual))
    ELSE Ok(CaseEntry(objs, k)[1].data[1])

\* C21: the calling context alone decides whether a and A are one property.
\* In a case-sensitive context get, set, delete, define_value, add_property
\* and set_attributes on a name leave the entry under the other spelling as
\* it was and get reads only the exact spelling; in a case-insensitive
\* context an object that holds one spelling never comes to hold two.
C21_Original ==
    [][(last'.op \in CaseOps /\ last'.name \in CaseNames) =>
        IF is_case_sensitive(swf_version)
        THEN /\ CaseEntry(objects', CaseOther(last'.name))
                    = CaseEntry(objects, CaseOther(last'.name))
             /\ last'.op = "get" => last'.res = CaseReadOf(objects, last'.name)
        ELSE CaseCount(objects, last'.name) = 1
                => CaseCount(objects', last'.name) <= 1]_vars

\* In a movie of version 7, add_property("a") has replaced the property
\* stored under A: the object holds one entry, a virtual one, under A.
C21_Witness ==
    /\ swf_version = 7
    /\ last.op = "add_property"
    /\ last.name = "a"
    /\ PM_keys(objects["o1"].values) = <<"A">>
    /\ is_virtual(objects["o1"].values[1].val)

\* In a movie of version 7, set_attributes("a") has made the value stored
\* under A read-only.
C21_ReflaggedReached ==
    /\ swf_version = 7
    /\ last.op = "set_attributes"
    /\ last.name = "a"
    /\ PM_keys(objects["o1"].values) = <<"A">>
    /\ ~is_virtual(objects["o1"].values[1].val)
    /\ READ_ONLY \in objects["o1"].values[1].val.attributes
    /\ steps = 2

\* In a movie of version 6, define_value("a") has added a second entry to
\* an object that held A.
C21_SecondEntryReached ==
    /\ swf_version = 6
    /\ last.op = "define_value"
    /\ last.name = "a"
    /\ PM_keys(objects["o1"].values) = <<"A", "a">>

\* What the operations do: get, set and delete follow the context;
\* define_value is always exact; add_property and set_attributes always
\* fold the case.
C21_CaseRules ==
    [][(last'.op \in CaseOps /\ last'.name \in CaseNames) =>
        /\ (last'.op \in {"get", "set", "delete"}
                /\ is_case_sensitive(swf_version))
            => CaseEntry(objects', CaseOther(last'.name))
                    = CaseEntry(objects, CaseOther(last'.name))
        /\ (last'.op \in {"get", "set", "delete"}
                /\ ~is_case_sensitive(swf_version))
            => CaseCount(objects', last'.name) <= CaseCount(objects, last'.name)
                \/ CaseCount(objects, last'.name) = 0
        /\ last'.op = "define_value"
            => CaseEntry(objects', CaseOther(last'.name))
                    = CaseEntry(objects, CaseOther(last'.name))
        /\ last'.op \in {"add_property", "set_attributes"}
            => /\ CaseCount(objects', last'.name) <= CaseCount(objects, last'.name)
                    \/ CaseCount(objects, last'.name) = 0
               /\ CaseCount(objects, last'.name) # 0
                    => PM_keys(objects'["o1"].values) = PM_keys(objects["o1"].values)]_vars

(***************************************************************************)
(* SpecResolve: identifiers read and written through a scope chain.  The   *)
(* arena holds the global scope over o1, a target scope over o2 above it,  *)
(* a local scope over o3 above each of the two, and a with scope over o2   *)
(* innermost; o4 is the prototype of o3.  The activation runs in one of    *)
(* these scopes; its objects get values and getters under the name a.      *)
(***************************************************************************)
MaxResolveOps == 3

ResolveArena ==
    <<from_global_object("o1"),
      Scope_new(1, "Target", "o2"),
      new_local_scope(2, "o3"),
      new_local_scope(1, "o3"),
      new_with_scope(3, "o2")>>
ResolveObjects == {"o1", "o2", "o3", "o4"}
ResolveNames == {"a", "__proto__"}
ResolveValues == {String(StrInitial), Object("fone")}
ResolveGetters == {"fconst", "fthrow"}

ResolveTick ==
    /\ steps < MaxResolveOps
    /\ steps' = steps + 1
    /\ UNCHANGED <<scopes, scope, swf_version>>

InitResolve ==
    /\ objects = [o \in ResolveObjects |->
                    ScriptObject_object(IF o = "o3" THEN Some("o4") ELSE None)]
    /\ scopes = ResolveArena
    /\ scope \in 1..Len(ResolveArena)
    /\ swf_version = 6
    /\ last = NoLast
    /\ steps = 0

\* o.define_value("a", value, empty)
ResolveDefineValue ==
    /\ ResolveTick
    /\ \E o \in ResolveObjects, v \in ResolveValues :
            /\ objects' = ScriptObject_define_value(objects, o, "a", v,
                                                    Attribute_empty)
            /\ last' = [NoLast EXCEPT !.op = "define_value", !.obj = o,
                                      !.name = "a", !.arg = v]

\* o.add_property("a", getter, Some(setter), empty)
ResolveAddProperty ==
    /\ ResolveTick
    /\ \E o \in {"o1", "o3", "o4"}, g \in ResolveGetters :
            /\ objects' = ScriptObject_add_property(objects, o, "a", g,
                                                    Some("fnew"), Attribute_empty)
            /\ last' = [NoLast EXCEPT !.op = "add_property", !.obj = o,
                                      !.name = "a"]

\* scope.set("a", value, activation, this); last.obj is the object set was
\* called on, if any.
ResolveSetDone(r) ==
    /\ objects' = r.objs
    /\ last' = [NoLast EXCEPT !.op = "set", !.name = "a",
                    !.obj = IF r.res = Panic THEN NoObject
                            ELSE scopes[r.at].values,
                    !.res = r.res, !.flag = r.asserted,
                    !.calls = r.calls, !.scope = scope]

ResolveSet ==
    /\ ResolveTick
    /\ \E overflow_checks \in BOOLEAN, debug_assertions \in BOOLEAN :
            ResolveSetDone(Scope_set(objects, scopes, scope, "a",
                                     String(StrReplaced),
                                     is_case_sensitive(swf_version),
                                     overflow_checks, debug_assertions))

\* scope.resolve(name, activation, this), and the result called with the
\* default this o1 when resolve returned one; last.keys are the calls that
\* call started.
ResolveResolveDone(n, r) ==
    last' = [NoLast EXCEPT !.op = "resolve", !.name = n,
                !.res = r.res, !.calls = r.calls, !.scope = scope,
                !.keys = IF r.res.kind = "Ok"
                         THEN call_with_default_this(r.res.val, "o1",
                                    n, 0, <<>>).calls
                         ELSE <<>>]

ResolveResolve ==
    /\ ResolveTick
    /\ \E n \in ResolveNames :
            ResolveResolveDone(n, Scope_resolve(objects, scopes, scope, n,
                                                is_case_sensitive(swf_version)))
    /\ UNCHANGED objects

\* scope.is_defined(activation, name)
ResolveIsDefined ==
    /\ ResolveTick
    /\ \E n \in ResolveNames :
            last' = [NoLast EXCEPT !.op = "is_defined", !.name = n,
                        !.scope = scope,
                        !.flag = Scope_is_defined(objects, scopes, scope, n,
                                        is_case_sensitive(swf_version))]
    /\ UNCHANGED objects

NextResolve ==
    \/ ResolveDefineValue
    \/ ResolveAddProperty
    \/ ResolveSet
    \/ ResolveResolve
    \/ ResolveIsDefined

SpecResolve == InitResolve /\ [][NextResolve]_vars

\* The locals of the i-th link of the activation's chain, innermost first.
ResolveLocals(i) == scopes[ScopeChain(scopes, scope)[i]].values

\* The links of the chain whose locals have the name, own or inherited.
ResolveHolders(objs, n) ==
    {i \in 1..Len(ScopeChain(scopes, scope)) :
        has_property(objs, ResolveLocals(i), n, is_case_sensitive(swf_version))}

\* The links at which Scope::set stops.
ResolveStops(objs, n) ==
    ResolveHolders(objs, n)
        \cup {i \in 1..Len(ScopeChain(scopes, scope)) :
                    scopes[ScopeChain(scopes, scope)[i]].class = "Target"}

\* The innermost of a set of links.
ResolveInnermost(links) == CHOOSE i \in links : \A j \in links : i <= j

\* What get(name) on the locals of the innermost holder gives.
ResolveGet(n) ==
    TObject_get(objects, ResolveLocals(ResolveInnermost(ResolveHolders(objects, n))),
                n, is_case_sensitive(swf_version))

\* C22: resolve(name) returns Callable(o, o.get(name)) for the locals o of
\* the innermost link whose locals has_property(name), or what that get
\* failed with; only that get runs, and a call of the result has this = o.
\* When no link has the name it returns UnCallable(Undefined) and a call
\* has the default this.  is_defined(name) is true exactly when a link has
\* the name.
C22_Resolve ==
    /\ (last.op = "resolve" /\ ResolveHolders(objects, last.name) = {})
        => /\ last.res = Ok(UnCallable(Undefined))
           /\ last.calls = <<>>
           /\ last.keys = <<>>
    /\ (last.op = "resolve" /\ ResolveHolders(objects, last.name) # {})
        => /\ ResolveGet(last.name).res.kind = "Ok" =>
                last.res = Ok(Callable(
                    ResolveLocals(ResolveInnermost(ResolveHolders(objects, last.name))),
                    ResolveGet(last.name).res.val))
           /\ ResolveGet(last.name).res.kind # "Ok" =>
                last.res = ResolveGet(last.name).res
           /\ last.calls = ResolveGet(last.name).calls
           /\ \A i \in 1..Len(last.keys) :
                last.keys[i].this
                    = ResolveLocals(ResolveInnermost(ResolveHolders(objects, last.name)))
    /\ last.op = "is_defined"
        => last.flag = (ResolveHolders(objects, last.name) # {})

\* resolve("a") on [with(o2), local(o3), target(o2), global(o1)] has found
\* the function a that o3 inherits from o4 and not the a of o1, and the
\* call of the result ran with this = o3.
C22_Witness ==
    /\ last.op = "resolve"
    /\ last.name = "a"
    /\ scope = 5
    /\ ~has_own_property(objects, "o3", "a", FALSE)
    /\ PM_get(objects["o4"].values, "a", FALSE)
            = Some(new_stored(Object("fone"), Attribute_empty))
    /\ has_own_property(objects, "o1", "a", FALSE)
    /\ last.res = Ok(Callable("o3", Object("fone")))
    /\ last.keys = <<Call("fone", "a", "o3", 0, <<>>)>>

\* resolve("a") has found nothing on a chain of three links.
C22_UnCallableReached ==
    /\ last.op = "resolve"
    /\ last.name = "a"
    /\ scope = 3
    /\ last.res = Ok(UnCallable(Undefined))

\* resolve("a") has returned what the getter of the innermost a threw.
C22_ThrownReached ==
    /\ last.op = "resolve"
    /\ last.res = ThrownValue(String(StrThrown))

\* C23: Scope::set calls set on the locals of exactly one link, the first
\* from the innermost that is a Target link or whose locals have the name,
\* and every other object is left as it was.
C23_Original ==
    [][last'.op = "set" =>
        /\ ResolveStops(objects, "a") # {}
        /\ last'.obj = ResolveLocals(ResolveInnermost(ResolveStops(objects, "a")))
        /\ \A o \in DOMAIN objects \ {last'.obj} : objects'[o] = objects[o]]_vars

\* Scope::set has run on [local(o3), global(o1)] with a defined nowhere:
\* no link is a Target link or has the name.
C23_Witness ==
    /\ last.op = "set"
    /\ last.flag
    /\ scope = 4
    /\ ~has_property(objects, "o3", "a", FALSE)
    /\ last.obj \in {NoObject, "o1"}

\* What Scope::set does on a chain with a link to stop at: it calls set on
\* the locals of that link, does not reach its last branch, and leaves
\* every other object as it was.
C23_SetFrame ==
    [][(last'.op = "set" /\ ResolveStops(objects, "a") # {}) =>
        /\ ~last'.flag
        /\ last'.obj = ResolveLocals(ResolveInnermost(ResolveStops(objects, "a")))
        /\ \E overflow_checks \in BOOLEAN :
                /\ objects' = TObject_set(objects, last'.obj, "a",
                                    String(StrReplaced),
                                    is_case_sensitive(swf_version),
                                    overflow_checks).objs
                /\ last'.res = TObject_set(objects, last'.obj, "a",
                                    String(StrReplaced),
                                    is_case_sensitive(swf_version),
                                    overflow_checks).res
        /\ \A o \in DOMAIN objects \ {last'.obj} : objects'[o] = objects[o]]_vars

\* Scope::set on [local(o3), target(o2), global(o1)] has written a on the
\* target o2 and left the a of the global o1 as it was.
C23_GlobalKeptReached ==
    /\ last.op = "set"
    /\ scope = 3
    /\ last.obj = "o2"
    /\ PM_get(objects["o2"].values, "a", FALSE)
            = Some(new_stored(String(StrReplaced), Attribute_empty))
    /\ PM_get(objects["o1"].values, "a", FALSE)
            = Some(new_stored(String(StrInitial), Attribute_empty))

(***************************************************************************)
(* SpecBorrow: the borrows of an object's cell around callbacks.  Each     *)
(* method is the sequence of its steps on the cell: borrow for reading or  *)
(* writing (with the lookup or the change made under the borrow), release, *)
(* start a callback, call another method, return.  A borrow taken in the   *)
(* scrutinee of a let ... = match is released at the end of that           *)
(* statement, one taken inside a callee before the callee returns.  A      *)
(* callback may re-enter get, set, delete or define_value on o1 or on its  *)
(* prototype o2.  borrow is the flag of the cell: 0 free, n > 0 readers,   *)
(* -1 a writer.  last.calls is the stack of frames, innermost last, and    *)
(* last.flag tells that a borrow failed (the cell panics).                 *)
(***************************************************************************)
MaxBorrowOps == 1
MaxBorrowDepth == 2

BorrowObjects == {"o1", "o2"}
BorrowOps == {"get", "set", "delete", "define_value"}
BorrowVirtual == new_virtual("fconst", Some("fnew"), Attribute_empty)
BorrowStored == new_stored(String(StrInitial), Attribute_empty)

Instr(kind, obj, arg, when) ==
    [kind |-> kind, obj |-> obj, arg |-> arg, when |-> when]

Frame(fn, obj) ==
    [fn |-> fn, obj |-> obj, pc |-> 1, a |-> FALSE, b |-> FALSE, c |-> FALSE]

\* The objects a walk up the prototype chain from o passes.
RECURSIVE BorrowChain(_, _)
BorrowChain(objs, o) ==
    IF ScriptObject_proto(objs, o).tag = "Object"
    THEN <<o>> \o BorrowChain(objs, ScriptObject_proto(objs, o).val)
    ELSE <<o>>

\* ScriptObject::get_local: the table is read in the scrutinee of the
\* match, the getter copied out (get.to_owned()), and the getter runs
\* after the let statement.  a: Some(..) is returned; b: a getter runs.
get_local_program_HeldBorrow(o) ==
    <<Instr("read", o, "getter", "always"),
      Instr("exec", o, "[Getter]", "b"),
      Instr("release", o, "", "always"),
      Instr("ret", o, "", "a")>>
get_local_program(o) ==
    <<Instr("read", o, "getter", "always"),
      Instr("release", o, "", "always"),
      Instr("exec", o, "[Getter]", "b"),
      Instr("ret", o, "", "a")>>

\* TObject::get through search_prototype: get_local on each object of the
\* chain until one returns Some.
RECURSIVE get_programs(_)
get_programs(chain) ==
    IF chain = <<>> THEN <<>>
    ELSE get_local_program(Head(chain)) \o get_programs(Tail(chain))

get_program(objs, o) ==
    get_programs(BorrowChain(objs, o)) \o <<Instr("ret", o, "", "always")>>

\* ScriptObject::set_local.  a: a watcher is registered; b: its callback is
\* executable; c: Property::set handed back an executable setter.
set_local_program(o) ==
    <<Instr("read", o, "watcher", "always"),
      Instr("release", o, "", "always"),
      Instr("call", o, "get", "a"),
      Instr("exec", o, "watcher", "ab"),
      Instr("write", o, "entry", "always"),
      Instr("release", o, "", "always"),
      Instr("exec", o, "[Setter]", "c"),
      Instr("ret", o, "", "always")>>

\* One turn of the loop of TObject::set on this_proto: has_own_virtual,
\* then call_setter (which borrows for writing and returns the setter) and
\* the setter.  b: this_proto has the name as a virtual property; c:
\* call_setter returned an executable setter.
set_crawl_program(this_proto) ==
    <<Instr("read", this_proto, "virtual", "always"),
      Instr("release", this_proto, "", "always"),
      Instr("write", this_proto, "call_setter", "b"),
      Instr("release", this_proto, "", "b"),
      Instr("exec", this_proto, "[Setter]", "bc"),
      Instr("ret", this_proto, "", "b")>>

RECURSIVE set_crawl_programs(_)
set_crawl_programs(chain) ==
    IF chain = <<>> THEN <<>>
    ELSE set_crawl_program(Head(chain)) \o set_crawl_programs(Tail(chain))

\* TObject::set.  a: the receiver has the name as an own property.
set_program(objs, o) ==
    <<Instr("read", o, "own", "always"),
      Instr("release", o, "", "always"),
      Instr("call", o, "set_local", "a"),
      Instr("ret", o, "", "a")>>
    \o set_crawl_programs(BorrowChain(objs, o))
    \o <<Instr("call", o, "set_local", "always"),
          Instr("ret", o, "", "always")>>

\* ScriptObject::delete and ScriptObject::define_value
delete_program(o) ==
    <<Instr("write", o, "delete", "always"),
      Instr("release", o, "", "always"),
      Instr("ret", o, "", "always")>>

define_value_program(o) ==
    <<Instr("write", o, "define_value", "always"),
      Instr("release", o, "", "always"),
      Instr("ret", o, "", "always")>>

\* A callback: it may re-enter the engine once, then returns.
callback_program(o) ==
    <<Instr("reenter", o, "", "always"), Instr("ret", o, "", "always")>>

Program(objs, fn, o) ==
    CASE fn = "get" -> get_program(objs, o)
      [] fn = "set" -> set_program(objs, o)
      [] fn = "set_local" -> set_local_program(o)
      [] fn = "delete" -> delete_program(o)
      [] fn = "define_value" -> define_value_program(o)
      [] OTHER -> callback_program(o)

\* GcCell::read and GcCell::write on the flag of the cell.
can_borrow(objs, o, kind) ==
    IF kind = "read" THEN objs[o].borrow >= 0 ELSE objs[o].borrow = 0

borrowed(objs, o, kind) ==
    [objs EXCEPT ![o].borrow = IF kind = "read" THEN @ + 1 ELSE -1]

released(objs, o) ==
    [objs EXCEPT ![o].borrow = IF @ = -1 THEN 0 ELSE @ - 1]

\* What is read under a borrow: the registers of the frame afterwards.
BorrowLookup(objs, f, o, arg, cs) ==
    CASE arg = "getter" ->
            [f EXCEPT !.a = /\ PM_get(objs[o].values, "x", cs) # None
                            /\ is_virtual(PM_get(objs[o].values, "x", cs)[1])
                                    => as_executable(PM_get(objs[o].values, "x",
                                            cs)[1].getter[1]) # None,
                      !.b = /\ has_own_virtual(objs, o, "x", cs)
                            /\ as_executable(PM_get(objs[o].values, "x",
                                            cs)[1].getter[1]) # None]
      [] arg = "watcher" ->
            [f EXCEPT !.a = PM_get(objs[o].watchers, "x", cs) # None,
                      !.b = /\ PM_get(objs[o].watchers, "x", cs) # None
                            /\ as_executable(PM_get(objs[o].watchers, "x",
                                            cs)[1].callback) # None]
      [] arg = "own" -> [f EXCEPT !.a = has_own_property(objs, o, "x", cs)]
      [] arg = "virtual" -> [f EXCEPT !.b = has_own_virtual(objs, o, "x", cs)]
      [] arg = "entry" ->
            [f EXCEPT !.c = setter_calls(set_local_entry(objs, o, "x",
                                String(StrReplaced), cs).setter, o, 0,
                                Undefined) # <<>>]
      [] arg = "call_setter" ->
            [f EXCEPT !.c = setter_calls(call_setter(objs, o, "x",
                                String(StrReplaced), cs).setter, o, 0,
                                Undefined) # <<>>]
      [] OTHER -> f

\* What is changed under a write borrow.
BorrowEffect(objs, o, arg, cs) ==
    CASE arg = "entry" ->
            set_local_entry(objs, o, "x", String(StrReplaced), cs).objs
      [] arg = "call_setter" ->
            call_setter(objs, o, "x", String(StrReplaced), cs).objs
      [] arg = "delete" -> ScriptObject_delete(objs, o, "x", cs).objs
      [] arg = "define_value" ->
            ScriptObject_define_value(objs, o, "x", String(StrInitial),
                                      Attribute_empty)
      [] OTHER -> objs

BorrowCond(f, when) ==
    CASE when = "a" -> f.a
      [] when = "b" -> f.b
      [] when = "c" -> f.c
      [] when = "ab" -> f.a /\ f.b
      [] when = "bc" -> f.b /\ f.c
      [] OTHER -> TRUE

\* The stack, its innermost frame and the step that frame is at.
BorrowStack == last.calls
BorrowTop == BorrowStack[Len(BorrowStack)]
BorrowInstr == Program(objects, BorrowTop.fn, BorrowTop.obj)[BorrowTop.pc]
BorrowRunning == ~last.flag /\ BorrowStack # <<>>
BorrowCallbacks ==
    Cardinality({i \in 1..Len(BorrowStack) : BorrowStack[i].fn = "callback"})

\* The stack with its innermost frame replaced, advanced, or left.
BorrowWithTop(f) == [BorrowStack EXCEPT ![Len(BorrowStack)] = f]
BorrowAdvanced(f) == BorrowWithTop([f EXCEPT !.pc = @ + 1])
BorrowPopped == SubSeq(BorrowStack, 1, Len(BorrowStack) - 1)

BorrowCell(values, watchers, proto) ==
    [borrow |-> 0, class |-> "ScriptObject",
     prototype |-> IF proto = None THEN Undefined ELSE Object(proto[1]),
     values |-> values, watchers |-> watchers]

InitBorrow ==
    /\ \E v1 \in {<<>>, <<[key |-> "x", val |-> BorrowStored]>>,
                   <<[key |-> "x", val |-> BorrowVirtual]>>},
          w1 \in {<<>>, <<[key |-> "x", val |-> Watcher_new("fnew", Undefined)]>>},
          v2 \in {<<>>, <<[key |-> "x", val |-> BorrowVirtual]>>} :
            objects = [o \in BorrowObjects |->
                        IF o = "o1" THEN BorrowCell(v1, w1, Some("o2"))
                        ELSE BorrowCell(v2, <<>>, None)]
    /\ scopes = <<>>
    /\ scope = NoScope
    /\ swf_version = 6
    /\ last = NoLast
    /\ steps = 0

BorrowFrame == UNCHANGED <<scopes, scope, swf_version>>

\* The interpreter calls o1.get("x") or o1.set("x", v).
BorrowBegin ==
    /\ ~last.flag
    /\ BorrowStack = <<>>
    /\ steps < MaxBorrowOps
    /\ steps' = steps + 1
    /\ \E fn \in {"get", "set"} :
            last' = [NoLast EXCEPT !.op = fn, !.obj = "o1",
                                   !.calls = <<Frame(fn, "o1")>>]
    /\ UNCHANGED objects
    /\ BorrowFrame

\* A step whose condition does not hold is passed over.
BorrowSkip ==
    /\ BorrowRunning
    /\ ~BorrowCond(BorrowTop, BorrowInstr.when)
    /\ last' = [last EXCEPT !.op = "skip", !.calls = BorrowAdvanced(BorrowTop)]
    /\ UNCHANGED <<objects, steps>>
    /\ BorrowFrame

\* self.0.read() or self.0.write(..): the cell panics when it is borrowed
\* in a way that excludes the new borrow.
BorrowAcquire ==
    /\ BorrowRunning
    /\ BorrowCond(BorrowTop, BorrowInstr.when)
    /\ BorrowInstr.kind \in {"read", "write"}
    /\ IF can_borrow(objects, BorrowInstr.obj, BorrowInstr.kind)
       THEN /\ objects' = borrowed(
                    BorrowEffect(objects, BorrowInstr.obj, BorrowInstr.arg,
                                 is_case_sensitive(swf_version)),
                    BorrowInstr.obj, BorrowInstr.kind)
            /\ last' = [last EXCEPT !.op = BorrowInstr.kind,
                            !.obj = BorrowInstr.obj,
                            !.calls = BorrowAdvanced(
                                BorrowLookup(objects, BorrowTop, BorrowInstr.obj,
                                    BorrowInstr.arg,
                                    is_case_sensitive(swf_version)))]
       ELSE /\ objects' = objects
            /\ last' = [last EXCEPT !.op = BorrowInstr.kind,
                            !.obj = BorrowInstr.obj, !.flag = TRUE]
    /\ UNCHANGED steps
    /\ BorrowFrame

\* The guard of the borrow is dropped.
BorrowRelease ==
    /\ BorrowRunning
    /\ BorrowCond(BorrowTop, BorrowInstr.when)
    /\ BorrowInstr.kind = "release"
    /\ objects' = released(objects, BorrowInstr.obj)
    /\ last' = [last EXCEPT !.op = "release", !.obj = BorrowInstr.obj,
                            !.calls = BorrowAdvanced(BorrowTop)]
    /\ UNCHANGED steps
    /\ BorrowFrame

\* exec.exec(..) of a getter, a setter or a watcher callback.
BorrowExec ==
    /\ BorrowRunning
    /\ BorrowCond(BorrowTop, BorrowInstr.when)
    /\ BorrowInstr.kind = "exec"
    /\ last' = [last EXCEPT !.op = "exec", !.obj = BorrowInstr.obj,
                    !.name = BorrowInstr.arg,
                    !.calls = Append(BorrowAdvanced(BorrowTop),
                                     Frame("callback", BorrowInstr.obj))]
    /\ UNCHANGED <<objects, steps>>
    /\ BorrowFrame

\* A method calls another method of the same object.
BorrowCall ==
    /\ BorrowRunning
    /\ BorrowCond(BorrowTop, BorrowInstr.when)
    /\ BorrowInstr.kind = "call"
    /\ last' = [last EXCEPT !.op = "call", !.obj = BorrowInstr.obj,
                    !.calls = Append(BorrowAdvanced(BorrowTop),
                                     Frame(BorrowInstr.arg, BorrowInstr.obj))]
    /\ UNCHANGED <<objects, steps>>
    /\ BorrowFrame

\* The running callback calls get, set, delete or define_value on o1 or o2.
BorrowReenter ==
    /\ BorrowRunning
    /\ BorrowInstr.kind = "reenter"
    /\ BorrowCallbacks <= MaxBorrowDepth
    /\ \E fn \in BorrowOps, o \in BorrowObjects :
            last' = [last EXCEPT !.op = "reenter", !.obj = o, !.name = fn,
                        !.calls = Append(BorrowAdvanced(BorrowTop), Frame(fn, o))]
    /\ UNCHANGED <<objects, steps>>
    /\ BorrowFrame

\* A method or a callback returns.
BorrowReturn ==
    /\ BorrowRunning
    /\ BorrowCond(BorrowTop, BorrowInstr.when)
    /\ BorrowInstr.kind \in {"ret", "reenter"}
    /\ last' = [last EXCEPT !.op = "ret", !.obj = BorrowInstr.obj,
                            !.calls = BorrowPopped]
    /\ UNCHANGED <<objects, steps>>
    /\ BorrowFrame

NextBorrow ==
    \/ BorrowBegin
    \/ BorrowSkip
    \/ BorrowAcquire
    \/ BorrowRelease
    \/ BorrowExec
    \/ BorrowCall
    \/ BorrowReenter
    \/ BorrowReturn

SpecBorrow == InitBorrow /\ [][NextBorrow]_vars

C24_GetterReached ==
    /\ last.op = "exec"
    /\ last.name = "[Getter]"

\* A watcher callback is running and re-enters set on the object it
\* watches.
C24_WatcherReached ==
    /\ last.op = "reenter"
    /\ last.name = "set"
    /\ last.obj = "o1"
    /\ Len(last.calls) >= 4
    /\ last.calls[2].fn = "set_local"
    /\ last.calls[3].fn = "callback"
    /\ last.calls[2].pc = 5

(***************************************************************************)
(* LoadManager and Loader (loader.rs).  The arena maps the handles of the  *)
(* registered loaders to the loaders.  process is where the future the     *)
(* loader returned stands: spawned, fetching (its first update has run),   *)
(* or finished; replacing_root_movie is the variable the future of a movie *)
(* loader captures.                                                        *)
(***************************************************************************)
Loader_new(kind, target_clip, target_broadcaster) ==
    [kind |-> kind, self_handle |-> None, target_clip |-> target_clip,
     target_broadcaster |-> target_broadcaster, loader_status |-> "Pending",
     process |-> "spawned", replacing_root_movie |-> FALSE]

\* Loader::introduce_loader_handle
introduce_loader_handle(loader, handle) ==
    [loader EXCEPT !.self_handle = Some(handle)]

\* LoadManager::add_loader
add_loader(arena, handle, loader) ==
    [h \in DOMAIN arena \cup {handle} |->
        IF h = handle THEN introduce_loader_handle(loader, handle) ELSE arena[h]]

\* LoadManager::load_root_movie, load_movie_into_clip, load_form_into_object,
\* load_form_into_load_vars and load_xml_into_node.
load_root_movie(arena, handle) ==
    add_loader(arena, handle, Loader_new("RootMovie", NoObject, None))
load_movie_into_clip(arena, handle, target_clip, target_broadcaster) ==
    add_loader(arena, handle, Loader_new("Movie", target_clip, target_broadcaster))
load_form_into_object(arena, handle) ==
    add_loader(arena, handle, Loader_new("Form", NoObject, None))
load_form_into_load_vars(arena, handle) ==
    add_loader(arena, handle, Loader_new("LoadVars", NoObject, None))
load_xml_into_node(arena, handle, active_clip) ==
    add_loader(arena, handle, Loader_new("Xml", active_clip, None))

\* The action movie_clip_loaded queues for a loader that succeeded.
OnLoadInit(clip, broadcaster, clip_object) ==
    [clip |-> clip, object |-> broadcaster, name |-> "broadcastMessage",
     args |-> <<"onLoadInit",
                IF clip_object = None THEN Undefined ELSE Object(clip_object[1])>>]

\* Loader::movie_clip_loaded: whether the loader is to be removed, and what
\* it queued.
movie_clip_loaded_AnyStatus(loader, loaded_clip, clip_object) ==
    IF loader.kind # "Movie" \/ loaded_clip # loader.target_clip
    THEN [remove |-> FALSE, queued |-> <<>>]
    ELSE [remove |-> TRUE,
          queued |-> IF loader.target_broadcaster # None
                     THEN <<OnLoadInit(loader.target_clip,
                                loader.target_broadcaster[1], clip_object)>>
                     ELSE <<>>]
movie_clip_loaded(loader, loaded_clip, clip_object) ==
    IF loader.kind # "Movie" THEN [remove |-> FALSE, queued |-> <<>>]
    ELSE IF loaded_clip # loader.target_clip
    THEN [remove |-> FALSE, queued |-> <<>>]
    ELSE IF loader.loader_status = "Pending"
    THEN [remove |-> FALSE, queued |-> <<>>]
    ELSE IF loader.loader_status = "Failed"
    THEN [remove |-> TRUE, queued |-> <<>>]
    ELSE [remove |-> TRUE,
          queued |-> IF loader.target_broadcaster # None
                     THEN <<OnLoadInit(loader.target_clip,
                                loader.target_broadcaster[1], clip_object)>>
                     ELSE <<>>]

\* The first loop of movie_clip_on_load over the handles up to n, in the
\* order of the arena: what the loaders queued.
RECURSIVE on_load_queued(_, _, _, _)
on_load_queued(arena, n, loaded_clip, clip_object) ==
    IF n = 0 THEN <<>>
    ELSE on_load_queued(arena, n - 1, loaded_clip, clip_object)
            \o (IF n \in DOMAIN arena
                THEN movie_clip_loaded(arena[n], loaded_clip, clip_object).queued
                ELSE <<>>)

invalidated_loaders(arena, loaded_clip, clip_object) ==
    {h \in DOMAIN arena :
        movie_clip_loaded(arena[h], loaded_clip, clip_object).remove}

\* LoadManager::movie_clip_on_load
movie_clip_on_load(arena, last_handle, loaded_clip, clip_object) ==
    [arena |-> [h \in DOMAIN arena
                    \ invalidated_loaders(arena, loaded_clip, clip_object)
                |-> arena[h]],
     queued |-> on_load_queued(arena, last_handle, loaded_clip, clip_object)]

\* The future of movie_loader up to fetch.await: the target clip is
\* unloaded and emptied, and whether it is the root clip is kept.
movie_loader_start(arena, handle, root_clip) ==
    [arena EXCEPT ![handle].process = "fetching",
                  ![handle].replacing_root_movie =
                        (arena[handle].target_clip = root_clip)]

\* The future of movie_loader after fetch.await.  A loader that replaces
\* the root movie returns after set_root_movie; else the status becomes
\* Succeeded or Failed.
movie_loader_fetched(arena, handle, ok) ==
    IF ok /\ arena[handle].replacing_root_movie
    THEN [arena EXCEPT ![handle].process = "finished"]
    ELSE [arena EXCEPT ![handle].process = "finished",
                       ![handle].loader_status =
                            IF ok THEN "Succeeded" ELSE "Failed"]

\* The futures of root_movie_loader, form_loader, load_vars_loader and
\* xml_loader: the loader is read at most, never changed.
data_loader_finished(arena, handle) ==
    [arena EXCEPT ![handle].process = "finished"]

(***************************************************************************)
(* SpecLoader: at most MaxLoaders loads are started; the executor runs     *)
(* their futures, fetches end well or badly, and clips fire their load     *)
(* events at any time.  objects is the arena of the LoadManager, steps the *)
(* number of handles given out, last.calls what the latest                 *)
(* movie_clip_on_load queued.                                              *)
(***************************************************************************)
MaxLoaders == 2

LoaderClips == {"root", "c1"}
LoaderBroadcasters == {None, Some("b1")}
LoaderClipObjects == {None, Some("co")}
LoaderHandles == 1..MaxLoaders

InitLoader ==
    /\ objects = <<>>
    /\ scopes = <<>>
    /\ scope = NoScope
    /\ swf_version = 6
    /\ last = NoLast
    /\ steps = 0

LoaderAdded(arena) ==
    /\ steps < MaxLoaders
    /\ steps' = steps + 1
    /\ objects' = arena
    /\ last' = [NoLast EXCEPT !.op = "add_loader", !.obj = steps + 1]
    /\ UNCHANGED <<scopes, scope, swf_version>>

LoaderLoadRootMovie == LoaderAdded(load_root_movie(objects, steps + 1))

LoaderLoadMovieIntoClip ==
    \E clip \in LoaderClips, b \in LoaderBroadcasters :
        LoaderAdded(load_movie_into_clip(objects, steps + 1, clip, b))

LoaderLoadFormIntoObject == LoaderAdded(load_form_into_object(objects, steps + 1))

LoaderLoadFormIntoLoadVars ==
    LoaderAdded(load_form_into_load_vars(objects, steps + 1))

LoaderLoadXmlIntoNode == LoaderAdded(load_xml_into_node(objects, steps + 1, "c1"))

\* The executor polls the future of movie loader h for the first time.
LoaderMovieStart(h) ==
    /\ h \in DOMAIN objects
    /\ objects[h].kind = "Movie"
    /\ objects[h].process = "spawned"
    /\ objects' = movie_loader_start(objects, h, "root")
    /\ last' = [NoLast EXCEPT !.op = "start", !.obj = h]
    /\ UNCHANGED <<scopes, scope, swf_version, steps>>

\* The fetch of movie loader h ends.
LoaderMovieFetched(h) ==
    /\ h \in DOMAIN objects
    /\ objects[h].kind = "Movie"
    /\ objects[h].process = "fetching"
    /\ \E ok \in BOOLEAN :
            /\ objects' = movie_loader_fetched(objects, h, ok)
            /\ last' = [NoLast EXCEPT !.op = "fetched", !.obj = h, !.flag = ok]
    /\ UNCHANGED <<scopes, scope, swf_version, steps>>

\* The future of a root movie, form, LoadVars or XML loader runs to its end.
LoaderDataFinished(h) ==
    /\ h \in DOMAIN objects
    /\ objects[h].kind # "Movie"
    /\ objects[h].process = "spawned"
    /\ \E ok \in BOOLEAN :
            /\ objects' = data_loader_finished(objects, h)
            /\ last' = [NoLast EXCEPT !.op = "fetched", !.obj = h, !.flag = ok]
    /\ UNCHANGED <<scopes, scope, swf_version, steps>>

\* A clip has run its first frame: load_manager.movie_clip_on_load.
LoaderMovieClipOnLoad(clip) ==
    /\ \E clip_object \in LoaderClipObjects :
            LET r == movie_clip_on_load(objects, steps, clip, clip_object)
            IN  /\ objects' = r.arena
                /\ last' = [NoLast EXCEPT !.op = "movie_clip_on_load",
                                !.obj = clip, !.calls = r.queued,
                                !.arg = IF clip_object = None THEN Undefined
                                        ELSE Object(clip_object[1])]
    /\ UNCHANGED <<scopes, scope, swf_version, steps>>

NextLoader ==
    \/ LoaderLoadRootMovie
    \/ LoaderLoadMovieIntoClip
    \/ LoaderLoadFormIntoObject
    \/ LoaderLoadFormIntoLoadVars
    \/ LoaderLoadXmlIntoNode
    \/ \E h \in LoaderHandles : LoaderMovieStart(h)
    \/ \E h \in LoaderHandles : LoaderMovieFetched(h)
    \/ \E h \in LoaderHandles : LoaderDataFinished(h)
    \/ \E clip \in LoaderClips : LoaderMovieClipOnLoad(clip)

SpecLoader == InitLoader /\ [][NextLoader]_vars

\* The executor runs every spawned future on, every fetch ends, and every
\* clip keeps firing load events.
SpecLoaderFair ==
    /\ SpecLoader
    /\ \A h \in LoaderHandles :
            /\ WF_vars(LoaderMovieStart(h))
            /\ WF_vars(LoaderMovieFetched(h))
            /\ WF_vars(LoaderDataFinished(h))
    /\ \A clip \in LoaderClips : SF_vars(LoaderMovieClipOnLoad(clip))

\* The loaders a load event of the clip may end.
LoaderDone(arena, clip) ==
    {h \in DOMAIN arena :
        /\ arena[h].kind = "Movie"
        /\ arena[h].target_clip = clip
        /\ arena[h].loader_status \in {"Succeeded", "Failed"}}

\* C25: movie_clip_on_load removes exactly the Movie loaders of the clip
\* whose status is Succeeded or Failed and queues onLoadInit only for
\* those that succeeded; a Pending loader stays registered, unchanged, and
\* nothing is queued for it.  No other step removes a loader.
C25_PendingKept ==
    [][/\ last'.op = "movie_clip_on_load" =>
            /\ DOMAIN objects' = DOMAIN objects \ LoaderDone(objects, last'.obj)
            /\ \A h \in DOMAIN objects' : objects'[h] = objects[h]
            /\ \A i \in 1..Len(last'.calls) :
                    /\ last'.calls[i].args[1] = "onLoadInit"
                    /\ \E h \in LoaderDone(objects, last'.obj) :
                            /\ objects[h].loader_status = "Succeeded"
                            /\ objects[h].target_broadcaster
                                    = Some(last'.calls[i].object)
            /\ (\A h \in LoaderDone(objects, last'.obj) :
                    objects[h].loader_status = "Failed"
                        \/ objects[h].target_broadcaster = None)
                => last'.calls = <<>>
       /\ last'.op # "movie_clip_on_load"
            => DOMAIN objects \subseteq DOMAIN objects']_vars

\* The load event of c1 has just left a Pending loader of c1 registered
\* and removed a loader of c1 that had succeeded, queuing its onLoadInit.
C25_Witness ==
    /\ last.op = "movie_clip_on_load"
    /\ last.obj = "c1"
    /\ steps = 2
    /\ Cardinality(DOMAIN objects) = 1
    /\ \A h \in DOMAIN objects :
            /\ objects[h].kind = "Movie"
            /\ objects[h].target_clip = "c1"
            /\ objects[h].loader_status = "Pending"
    /\ Len(last.calls) = 1

\* The load event of a clip has removed a loader that failed.
C25_FailedReached ==
    /\ last.op = "movie_clip_on_load"
    /\ steps = 1
    /\ objects = <<>>
    /\ last.calls = <<>>

\* C26: every loader whose load has finished is eventually removed from
\* the LoadManager.
C26_Original ==
    \A h \in LoaderHandles :
        []((h \in DOMAIN objects /\ objects[h].process = "finished")
            => <>(h \notin DOMAIN objects))

\* A form loader has finished and is registered.
C26_Witness ==
    \E h \in DOMAIN objects :
        /\ objects[h].kind = "Form"
        /\ objects[h].process = "finished"

\* A movie loader that replaced the root movie has finished and is still
\* Pending.
C26_RootReplacedReached ==
    \E h \in DOMAIN objects :
        /\ objects[h].kind = "Movie"
        /\ objects[h].replacing_root_movie
        /\ objects[h].process = "finished"
        /\ objects[h].loader_status = "Pending"

\* What the code does: under the same scheduling every movie loader that
\* ended as Succeeded or Failed is removed, and a loader of any other kind
\* or a movie loader that stays Pending is never removed.
C26_MovieRemoved ==
    \A h \in LoaderHandles :
        [](h \in DOMAIN objects
            => (objects[h].loader_status \in {"Succeeded", "Failed"}
                    => <>(h \notin DOMAIN objects)))

C26_OthersKept ==
    [][\A h \in DOMAIN objects :
            (objects[h].kind # "Movie" \/ objects[h].loader_status = "Pending")
                => h \in DOMAIN objects']_vars

(***************************************************************************)
(* ChildContainer and the container methods of a display object            *)
(* (display_object/container.rs).  A container is its render list, a       *)
(* sequence of children, and its depth list, a map from depths to          *)
(* children.  A child has a depth, a parent (this container or none) and   *)
(* the flag placed_by_script.  Positions in the render list count from 0   *)
(* as in the code.                                                         *)
(***************************************************************************)
RENDER == "RENDER"
DEPTH == "DEPTH"
EXECUTION == "EXECUTION"
Lists_all == {RENDER, DEPTH, EXECUTION}

ChildContainer_new == [render_list |-> <<>>, depth_list |-> <<>>]

\* iter().position(|x| ptr_eq(x, child)): the first position, if any.
position(list, child) ==
    IF \E i \in 1..Len(list) : list[i] = child
    THEN Some((CHOOSE i \in 1..Len(list) :
                /\ list[i] = child
                /\ \A j \in 1..(i - 1) : list[j] # child) - 1)
    ELSE None

\* Vec::insert and Vec::remove
Vec_insert(list, id, child) ==
    SubSeq(list, 1, id) \o <<child>> \o SubSeq(list, id + 1, Len(list))

Vec_remove(list, id) == SubSeq(list, 1, id) \o SubSeq(list, id + 2, Len(list))

\* list[from..=to].rotate_left(1) and rotate_right(1)
rotate_left(list, from, to) ==
    SubSeq(list, 1, from) \o SubSeq(list, from + 2, to + 1) \o <<list[from + 1]>>
        \o SubSeq(list, to + 2, Len(list))

rotate_right(list, from, to) ==
    SubSeq(list, 1, from) \o <<list[to + 1]>> \o SubSeq(list, from + 1, to)
        \o SubSeq(list, to + 2, Len(list))

\* BTreeMap::insert and BTreeMap::remove
BTreeMap_insert(map, depth, child) ==
    [d \in DOMAIN map \cup {depth} |-> IF d = depth THEN child ELSE map[d]]

BTreeMap_remove(map, depth) == [d \in DOMAIN map \ {depth} |-> map[d]]

\* ChildContainer::remove_child_from_depth_list
remove_child_from_depth_list(cc, child, child_depth) ==
    IF child_depth \in DOMAIN cc.depth_list /\ cc.depth_list[child_depth] = child
    THEN [cc EXCEPT !.depth_list = BTreeMap_remove(@, child_depth)]
    ELSE cc

\* ChildContainer::remove_child_from_render_list
remove_child_from_render_list(cc, child) ==
    IF position(cc.render_list, child) # None
    THEN [cc EXCEPT !.render_list = Vec_remove(@, position(cc.render_list, child)[1])]
    ELSE cc

\* ChildContainer::insert_at_id: the container and whether the child was
\* inserted.
insert_at_id_moved(list, old_id, id) ==
    IF old_id < id /\ id < Len(list) THEN rotate_left(list, old_id, id)
    ELSE IF old_id < id THEN rotate_left(list, old_id, id - 1)
    ELSE IF old_id > id THEN rotate_right(list, id, old_id)
    ELSE list

insert_at_id(cc, child, id) ==
    IF position(cc.render_list, child) # None
    THEN [cc |-> [cc EXCEPT !.render_list =
                    insert_at_id_moved(@, position(cc.render_list, child)[1], id)],
          inserted |-> FALSE]
    ELSE [cc |-> [cc EXCEPT !.render_list = Vec_insert(@, id, child)],
          inserted |-> TRUE]

\* The highest depth below depth and the lowest above it, if any.
depth_below(map, depth) ==
    IF \E d \in DOMAIN map : d < depth
    THEN Some(CHOOSE d \in DOMAIN map :
                d < depth /\ \A e \in DOMAIN map : e < depth => e <= d)
    ELSE None

depth_above(map, depth) ==
    IF \E d \in DOMAIN map : d > depth
    THEN Some(CHOOSE d \in DOMAIN map :
                d > depth /\ \A e \in DOMAIN map : e > depth => e >= d)
    ELSE None

\* A heap with the container mc and the fields of some children replaced.
with_container(objs, cc) == [objs EXCEPT !["mc"] = cc]

placed(objs, child, depth) ==
    [objs EXCEPT ![child].depth = depth, ![child].parent = TRUE]

\* replace_at_depth after insert_child_into_depth_list returned prev_child.
replace_at_depth_prev(objs, cc, child, prev_child) ==
    IF position(cc.render_list, prev_child) = None
    THEN [objs |-> objs, res |-> Panic]
    ELSE IF ~objs[prev_child].placed_by_script
    THEN [objs |-> [with_container(objs,
                        [cc EXCEPT !.render_list[
                            position(cc.render_list, prev_child)[1] + 1] = child])
                    EXCEPT ![prev_child].parent = FALSE],
          res |-> Ok(Object(prev_child))]
    ELSE [objs |-> with_container(objs,
                        [cc EXCEPT !.render_list = Vec_insert(@,
                            position(cc.render_list, prev_child)[1] + 1, child)]),
          res |-> Ok(Undefined)]

\* replace_at_depth when the depth was free: the child goes before the
\* child of the next depth above, or last.
replace_at_depth_free(objs, cc, child, above) ==
    IF above = None
    THEN [objs |-> with_container(objs,
                        [cc EXCEPT !.render_list = Append(@, child)]),
          res |-> Ok(Undefined)]
    ELSE IF position(cc.render_list, cc.depth_list[above[1]]) = None
    THEN [objs |-> objs, res |-> Panic]
    ELSE [objs |-> with_container(objs,
                        [cc EXCEPT !.render_list = Vec_insert(@,
                            position(cc.render_list, cc.depth_list[above[1]])[1],
                            child)]),
          res |-> Ok(Undefined)]

\* replace_at_depth that puts a child of a free depth last.
replace_at_depth_Last(objs, child, depth) ==
    IF depth \in DOMAIN objs["mc"].depth_list
    THEN replace_at_depth_prev(placed(objs, child, depth),
            [objs["mc"] EXCEPT !.depth_list = BTreeMap_insert(@, depth, child)],
            child, objs["mc"].depth_list[depth])
    ELSE replace_at_depth_free(placed(objs, child, depth),
            [objs["mc"] EXCEPT !.depth_list = BTreeMap_insert(@, depth, child)],
            child, None)

\* TDisplayObjectContainer::replace_at_depth
replace_at_depth(objs, child, depth) ==
    IF depth \in DOMAIN objs["mc"].depth_list
    THEN replace_at_depth_prev(placed(objs, child, depth),
            [objs["mc"] EXCEPT !.depth_list = BTreeMap_insert(@, depth, child)],
            child, objs["mc"].depth_list[depth])
    ELSE replace_at_depth_free(placed(objs, child, depth),
            [objs["mc"] EXCEPT !.depth_list = BTreeMap_insert(@, depth, child)],
            child, depth_above(objs["mc"].depth_list, depth))

\* ChildContainer::swap_at_depth when another child was at the depth.
swap_at_depth_prev(objs, cc, child, prev_child, prev_depth) ==
    IF position(cc.render_list, prev_child) = None
       \/ position(cc.render_list, child) = None
    THEN [objs |-> objs, res |-> Panic]
    ELSE [objs |-> with_container(
                        [objs EXCEPT ![prev_child].depth = prev_depth],
                        [cc EXCEPT
                            !.depth_list = BTreeMap_insert(@, prev_depth, prev_child),
                            !.render_list =
                                [@ EXCEPT
                                    ![position(cc.render_list, prev_child)[1] + 1] = child,
                                    ![position(cc.render_list, child)[1] + 1] = prev_child]]),
          res |-> Ok(Undefined)]

\* ChildContainer::swap_at_depth when the depth was free: the child leaves
\* its place in the render list and goes after the child of the next depth
\* below, or first.
swap_at_depth_moved(objs, cc, child, below) ==
    IF below = None
    THEN [objs |-> with_container(objs,
                        [cc EXCEPT !.render_list = Vec_insert(@, 0, child)]),
          res |-> Ok(Undefined)]
    ELSE IF position(cc.render_list, cc.depth_list[below[1]]) = None
    THEN [objs |-> objs, res |-> Panic]
    ELSE [objs |-> with_container(objs,
                        [cc EXCEPT !.render_list = Vec_insert(@,
                            position(cc.render_list, cc.depth_list[below[1]])[1] + 1,
                            child)]),
          res |-> Ok(Undefined)]

swap_at_depth_free(objs, cc, child, depth) ==
    IF position(cc.render_list, child) = None
    THEN [objs |-> objs, res |-> Panic]
    ELSE swap_at_depth_moved(objs,
            [cc EXCEPT !.render_list =
                        Vec_remove(@, position(cc.render_list, child)[1])],
            child, depth_below(cc.depth_list, depth))

\* ChildContainer::swap_at_depth
ChildContainer_swap_at_depth(objs, child, depth) ==
    IF depth \in DOMAIN objs["mc"].depth_list
    THEN swap_at_depth_prev(placed(objs, child, depth),
            [objs["mc"] EXCEPT !.depth_list = BTreeMap_insert(@, depth, child)],
            child, objs["mc"].depth_list[depth], objs[child].depth)
    ELSE swap_at_depth_free(placed(objs, child, depth),
            [objs["mc"] EXCEPT !.depth_list =
                BTreeMap_remove(BTreeMap_insert(@, depth, child), objs[child].depth)],
            child, depth)

\* TDisplayObjectContainer::swap_at_depth: debug_assert!(ptr_eq(
\* child.parent().unwrap(), self)) first.
swap_at_depth(objs, child, depth, debug_assertions) ==
    IF debug_assertions /\ ~objs[child].parent
    THEN [objs |-> objs, res |-> Panic]
    ELSE ChildContainer_swap_at_depth(objs, child, depth)

\* TDisplayObjectContainer::insert_at_index
insert_at_index(objs, child, index) ==
    [objs |-> with_container([objs EXCEPT ![child].parent = TRUE],
                             insert_at_id(objs["mc"], child, index).cc),
     res |-> Ok(Undefined)]

\* The lists of remove_child.
remove_child_lists(cc, child, child_depth, from_lists) ==
    IF RENDER \in from_lists
    THEN remove_child_from_render_list(
            IF DEPTH \in from_lists
            THEN remove_child_from_depth_list(cc, child, child_depth) ELSE cc,
            child)
    ELSE IF DEPTH \in from_lists
    THEN remove_child_from_depth_list(cc, child, child_depth)
    ELSE cc

\* TDisplayObjectContainer::remove_child; avm2 tells that the child has an
\* AVM2 object, and then it loses its parent.
remove_child(objs, child, from_lists, avm2, debug_assertions) ==
    IF debug_assertions /\ ~objs[child].parent
    THEN [objs |-> objs, res |-> Panic]
    ELSE [objs |-> with_container(
                    IF EXECUTION \in from_lists /\ avm2
                    THEN [objs EXCEPT ![child].parent = FALSE] ELSE objs,
                    remove_child_lists(objs["mc"], child, objs[child].depth,
                                       from_lists)),
          res |-> Ok(Undefined)]

\* The loop of remove_range over the children drained from the render
\* list.
RECURSIVE remove_range_loop(_, _, _)
remove_range_loop(objs, removed_list, avm2) ==
    IF removed_list = <<>> THEN objs
    ELSE remove_range_loop(
            with_container(
                IF avm2 THEN [objs EXCEPT ![Head(removed_list)].parent = FALSE]
                ELSE objs,
                remove_child_from_depth_list(objs["mc"], Head(removed_list),
                                             objs[Head(removed_list)].depth)),
            Tail(removed_list), avm2)

\* TDisplayObjectContainer::remove_range(from..to)
remove_range(objs, from, to, avm2) ==
    [objs |-> remove_range_loop(
                with_container(objs,
                    [objs["mc"] EXCEPT !.render_list =
                        SubSeq(@, 1, from) \o SubSeq(@, to + 1, Len(@))]),
                SubSeq(objs["mc"].render_list, from + 1, to), avm2),
     res |-> Ok(Undefined)]

\* ChildContainer::clear
ChildContainer_clear(objs) ==
    [objs |-> with_container(objs, ChildContainer_new), res |-> Ok(Undefined)]

(***************************************************************************)
(* SpecContainer: one container mc and three display objects, c3 placed by *)
(* script, put on and taken off the lists of mc at the depths 1 and 2.     *)
(***************************************************************************)
MaxContainerOps == 3

ContainerChildren == {"c1", "c2", "c3"}
ContainerDepths == {1, 2}
ContainerLists == SUBSET Lists_all \ {{}}

InitContainer ==
    /\ objects = [o \in ContainerChildren \cup {"mc"} |->
                    IF o = "mc" THEN ChildContainer_new
                    ELSE [depth |-> 0, parent |-> FALSE,
                          placed_by_script |-> (o = "c3")]]
    /\ scopes = <<>>
    /\ scope = NoScope
    /\ swf_version = 6
    /\ last = NoLast
    /\ steps = 0

\* The step of an operation that returned r; a panic ends the behaviour.
ContainerDone(op, child, keys, r) ==
    /\ steps < MaxContainerOps
    /\ last.res # Panic
    /\ steps' = steps + 1
    /\ objects' = r.objs
    /\ last' = [NoLast EXCEPT !.op = op, !.obj = child, !.keys = keys,
                         !.res = r.res]
    /\ UNCHANGED <<scopes, scope, swf_version>>

\* The children that are on a list of mc.
ContainerOn(objs) ==
    {objs["mc"].render_list[i] : i \in 1..Len(objs["mc"].render_list)}
        \cup {objs["mc"].depth_list[d] : d \in DOMAIN objs["mc"].depth_list}

\* The timeline places a display object that is on no list of mc.
ContainerReplaceAtDepth ==
    \E child \in ContainerChildren \ ContainerOn(objects), depth \in ContainerDepths :
        ContainerDone("replace_at_depth", child, <<>>,
                      replace_at_depth(objects, child, depth))

ContainerSwapAtDepth ==
    \E child \in ContainerChildren, depth \in ContainerDepths,
       debug_assertions \in BOOLEAN :
        /\ objects[child].parent
        /\ ContainerDone("swap_at_depth", child, <<>>,
                         swap_at_depth(objects, child, depth, debug_assertions))

ContainerInsertAtIndex ==
    \E child \in ContainerChildren, index \in 0..Len(objects["mc"].render_list) :
        ContainerDone("insert_at_index", child, <<>>,
                      insert_at_index(objects, child, index))

ContainerRemoveChild ==
    \E child \in ContainerChildren, from_lists \in ContainerLists,
       avm2 \in BOOLEAN, debug_assertions \in BOOLEAN :
        /\ objects[child].parent
        /\ ContainerDone("remove_child", child,
                         <<RENDER \in from_lists, DEPTH \in from_lists>>,
                         remove_child(objects, child, from_lists, avm2,
                                      debug_assertions))

ContainerRemoveRange ==
    \E from \in 0..Len(objects["mc"].render_list),
       to \in 0..Len(objects["mc"].render_list), avm2 \in BOOLEAN :
        /\ from < to
        /\ ContainerDone("remove_range", NoObject, <<>>,
                         remove_range(objects, from, to, avm2))

ContainerClear ==
    ContainerDone("clear", NoObject, <<>>, ChildContainer_clear(objects))

NextContainer ==
    \/ ContainerReplaceAtDepth
    \/ ContainerSwapAtDepth
    \/ ContainerInsertAtIndex
    \/ ContainerRemoveChild
    \/ ContainerRemoveRange
    \/ ContainerClear

SpecContainer == InitContainer /\ [][NextContainer]_vars

\* Every child on the depth list of mc is on its render list.
DepthOnRender(objs) ==
    \A d \in DOMAIN objs["mc"].depth_list :
        position(objs["mc"].render_list, objs["mc"].depth_list[d]) # None

\* C27: after any sequence of replace_at_depth, swap_at_depth,
\* insert_at_index, remove_child, remove_range and clear, every child on
\* the depth list is on the render list.
C27_Original == DepthOnRender(objects)

\* remove_child(c1, RENDER) has taken c1, placed at a depth, off the render
\* list and left it on the depth list.
C27_Witness ==
    /\ last.op = "remove_child"
    /\ last.obj = "c1"
    /\ last.keys = <<TRUE, FALSE>>
    /\ objects["mc"].render_list = <<>>
    /\ DOMAIN objects["mc"].depth_list = {objects["c1"].depth}
    /\ objects["mc"].depth_list[objects["c1"].depth] = "c1"

\* What the code keeps: a step other than a remove_child that takes the
\* child off the render list and not off the depth list keeps every child
\* of the depth list on the render list.
C27_KeptByOthers ==
    [][(DepthOnRender(objects)
            /\ ~(last'.op = "remove_child" /\ last'.keys = <<TRUE, FALSE>>))
        => DepthOnRender(objects')]_vars

\* A later replace_at_depth at the depth of a child that is off the render
\* list has panicked on position(..).unwrap().
C27_PanicReached ==
    /\ last.op = "replace_at_depth"
    /\ last.res = Panic
    /\ ~DepthOnRender(objects)

(***************************************************************************)
(* SpecWatch: set_local of the name a on o1 (prototype o2) when a watcher  *)
(* is registered for a.  a is absent, stored or virtual on o1, or          *)
(* inherited from o2; the watcher returns the new value or a constant,     *)
(* throws, or fails otherwise.                                             *)
(***************************************************************************)
MaxWatchOps == 3

WatchAttributes == {Attribute_empty, {READ_ONLY}, {DONT_ENUM, DONT_DELETE}}
WatchGetters == {"fconst", "fthrow"}
WatchSetters == {None, Some("fconst"), Some("fraise")}
WatchCallbacks == {"fnew", "fconst", "fthrow", "ferr"}
WatchValues == {String(StrReplaced), Null}

WatchTick ==
    /\ steps < MaxWatchOps
    /\ steps' = steps + 1
    /\ UNCHANGED <<scopes, scope, swf_version>>

InitWatch ==
    /\ objects = [o \in {"o1", "o2"} |->
                    ScriptObject_object(IF o = "o1" THEN Some("o2") ELSE None)]
    /\ scopes = <<>>
    /\ scope = NoScope
    /\ swf_version = 6
    /\ last = NoLast
    /\ steps = 0

\* o1.define_value("a", "initial", attributes)
WatchDefineValue ==
    /\ WatchTick
    /\ \E a \in WatchAttributes :
            objects' = ScriptObject_define_value(objects, "o1", "a",
                                                 String(StrInitial), a)
    /\ last' = [NoLast EXCEPT !.op = "define_value", !.obj = "o1", !.name = "a"]

\* o1.add_property("a", getter, setter, attributes)
WatchAddProperty ==
    /\ WatchTick
    /\ \E g \in WatchGetters, f \in WatchSetters,
          a \in {Attribute_empty, {DONT_DELETE}} :
            objects' = ScriptObject_add_property(objects, "o1", "a", g, f, a)
    /\ last' = [NoLast EXCEPT !.op = "add_property", !.obj = "o1", !.name = "a"]

\* o2.add_property("a", getter, None, empty): a is inherited.
WatchAddOnProto ==
    /\ WatchTick
    /\ \E g \in WatchGetters :
            objects' = ScriptObject_add_property(objects, "o2", "a", g, None,
                                                 Attribute_empty)
    /\ last' = [NoLast EXCEPT !.op = "add_property", !.obj = "o2", !.name = "a"]

\* o1.set_watcher("a", callback, undefined)
WatchSetWatcher ==
    /\ WatchTick
    /\ \E c \in WatchCallbacks :
            objects' = ScriptObject_set_watcher(objects, "o1", "a", c, Undefined,
                                                is_case_sensitive(swf_version))
    /\ last' = [NoLast EXCEPT !.op = "set_watcher", !.obj = "o1", !.name = "a"]

\* o1.set_local("a", value, activation, o1, 0)
WatchSetLocal ==
    /\ WatchTick
    /\ \E v \in WatchValues :
            LET r == ScriptObject_set_local(objects, "o1", "a", v, "o1", 0,
                                            is_case_sensitive(swf_version))
            IN  /\ objects' = r.objs
                /\ last' = [NoLast EXCEPT !.op = "set_local", !.obj = "o1",
                                          !.name = "a", !.arg = v,
                                          !.res = r.res, !.calls = r.calls]

NextWatch ==
    \/ WatchDefineValue
    \/ WatchAddProperty
    \/ WatchAddOnProto
    \/ WatchSetWatcher
    \/ WatchSetLocal

SpecWatch == InitWatch /\ [][NextWatch]_vars

\* What get("a") gives before the step, what the watcher is called with
\* and returns, and the value that replaces the new one.
WatchOld == TObject_get(objects, "o1", "a", CS)

WatchArgs == <<"a", WatchOld.res.val, last'.arg, Undefined>>

WatchCall == Call(WatcherBefore[1].callback, "a", "o1", 0, WatchArgs)

WatchReturn == Executable_exec(WatcherBefore[1].callback, WatchArgs)

WatchValue == IF WatchReturn.kind = "Ok" THEN WatchReturn.val ELSE Undefined

\* The call of the setter of an own virtual a with the replaced value.
WatchSetterCalls ==
    IF OwnBefore # None /\ OwnBefore[1].setter # None
    THEN <<Call(OwnBefore[1].setter[1], "[Setter]", "o1", 0, <<WatchValue>>)>>
    ELSE <<>>

WatchSetterResult ==
    IF WatchSetterCalls # <<>>
    THEN Executable_exec(OwnBefore[1].setter[1], <<WatchValue>>)
    ELSE Ok(Undefined)

\* The own a of o1 after the step: a new stored property with empty
\* attributes, the old one with the replaced value, or the old one as it
\* was when it is virtual or read-only.
WatchWritten ==
    IF OwnBefore = None THEN Some(new_stored(WatchValue, Attribute_empty))
    ELSE IF is_virtual(OwnBefore[1]) \/ READ_ONLY \in OwnBefore[1].attributes
    THEN OwnBefore
    ELSE Some([OwnBefore[1] EXCEPT !.data = Some(WatchValue)])

WatchOwnAfter == PM_get(objects'["o1"].values, "a", CS)

\* C29 as claimed: with a watcher on the name, set_local runs the watcher
\* with the old value get(name) and the new value before anything is
\* stored and the setter after it; what is written and passed to the
\* setter is the watcher's return value, or undefined when the watcher
\* throws, and then the thrown value is returned; the attributes of the
\* property do not change.
C29_Original ==
    [][(last'.op = "set_local" /\ WatcherBefore # None) =>
        /\ last'.calls = WatchOld.calls \o <<WatchCall>> \o WatchSetterCalls
        /\ WatchReturn.kind \in {"Ok", "ThrownValue"} =>
                WatchOwnAfter = WatchWritten
        /\ WatchReturn.kind = "ThrownValue" => last'.res = WatchReturn
        /\ OwnBefore # None =>
                /\ WatchOwnAfter # None
                /\ WatchOwnAfter[1].attributes = OwnBefore[1].attributes
    ]_vars

\* C29 as amended: when reading the old value get(name) fails, set_local
\* returns that error at once: no watcher runs, nothing is stored and no
\* setter runs.  Otherwise the watcher runs before anything is stored and
\* the setter after it; what is written and passed to the setter is the
\* watcher's return value, or undefined when the watcher fails; a value
\* the setter throws is returned, else the value the watcher threw, else
\* Ok; the attributes of the property do not change.
C29_SetLocalWatched ==
    [][(last'.op = "set_local" /\ WatcherBefore # None) =>
        IF WatchOld.res.kind # "Ok"
        THEN /\ last'.res = WatchOld.res
             /\ last'.calls = WatchOld.calls
             /\ UNCHANGED objects
        ELSE /\ last'.calls = WatchOld.calls \o <<WatchCall>> \o WatchSetterCalls
             /\ WatchOwnAfter = WatchWritten
             /\ OthersUntouched("o1", "a")
             /\ last'.res =
                    (IF WatchSetterResult.kind = "ThrownValue" THEN WatchSetterResult
                     ELSE IF WatchReturn.kind = "ThrownValue" THEN WatchReturn
                     ELSE Ok(Undefined))
    ]_vars

\* set_local on a stored a whose watcher throws has written undefined and
\* returned what the watcher threw.
C29_Witness ==
    /\ last.op = "set_local"
    /\ PM_get(objects["o1"].watchers, "a", CS) = Some(Watcher_new("fthrow", Undefined))
    /\ PM_get(objects["o1"].values, "a", CS) =
            Some(new_stored(Undefined, {DONT_ENUM, DONT_DELETE}))
    /\ Len(last.calls) = 1
    /\ last.calls[1].args = <<"a", String(StrInitial), last.arg, Undefined>>
    /\ last.res = ThrownValue(String(StrThrown))

\* The getter of a threw when it was read for the old value: set_local
\* returned that value and the watcher did not run.
C29_OldValueFailedReached ==
    /\ last.op = "set_local"
    /\ PM_get(objects["o1"].watchers, "a", CS) = Some(Watcher_new("fnew", Undefined))
    /\ last.calls = <<Call("fthrow", "[Getter]", "o1", 0, <<>>)>>
    /\ last.res = ThrownValue(String(StrThrown))

\* The watcher threw E and the setter, run after it with undefined, threw
\* F: set_local returned F.
C29_SetterThrewReached ==
    /\ last.op = "set_local"
    /\ Len(last.calls) = 3
    /\ last.calls[2].fn = "fthrow"
    /\ last.calls[3] = Call("fraise", "[Setter]", "o1", 0, <<Undefined>>)
    /\ last.res = ThrownValue(String(StrRaised))

(***************************************************************************)
(* SpecGet: get of the names x and __proto__ on the first object of a      *)
(* prototype chain of 3 or 256 objects, named "1", "2", ... in the order   *)
(* of the chain.  The names are stored values or getters on some objects,  *)
(* and the prototype of the first object can be replaced.                  *)
(***************************************************************************)
MaxGetOps == 3

GetLens == {3, U8_MAX + 1}
GetPlaces == {1, 2, 3, U8_MAX + 1}
GetNames == {"x", "__proto__"}
GetGetters == {"fconst", "fthrow"}
GetProtos == {Object("3"), Null}

GetTick ==
    /\ steps < MaxGetOps
    /\ steps' = steps + 1
    /\ UNCHANGED <<scopes, scope, swf_version>>

InitGet ==
    /\ \E len \in GetLens :
            objects = [o \in {ToString(i) : i \in 1..len} |->
                          ScriptObject_object(
                              IF o = ToString(len) THEN None
                              ELSE Some(ToString(1 + CHOOSE i \in 1..len : ToString(i) = o)))]
    /\ scopes = <<>>
    /\ scope = NoScope
    /\ swf_version \in {6, 7}
    /\ last = NoLast
    /\ steps = 0

\* object.define_value(name, i, empty) on the object at place i
GetDefineValue ==
    /\ GetTick
    /\ \E i \in GetPlaces, n \in GetNames :
            /\ i <= ChainLen
            /\ objects' = ScriptObject_define_value(objects, ToString(i), n,
                                                    Number(Fin(i)), Attribute_empty)
            /\ last' = [NoLast EXCEPT !.op = "define_value", !.obj = ToString(i),
                                      !.name = n]

\* object.add_property("x", getter, None, empty) on the object at place i
GetAddProperty ==
    /\ GetTick
    /\ \E i \in GetPlaces, g \in GetGetters :
            /\ i <= ChainLen
            /\ objects' = ScriptObject_add_property(objects, ToString(i), "x", g,
                                                    None, Attribute_empty)
            /\ last' = [NoLast EXCEPT !.op = "add_property", !.obj = ToString(i),
                                      !.name = "x"]

\* first.__proto__ = the third object, or null
GetSetProto ==
    /\ GetTick
    /\ \E v \in GetProtos, overflow_checks \in BOOLEAN :
            /\ objects' = TObject_set(objects, "1", "__proto__", v,
                                      is_case_sensitive(swf_version),
                                      overflow_checks).objs
            /\ last' = [NoLast EXCEPT !.op = "set", !.obj = "1",
                                      !.name = "__proto__", !.arg = v]

\* first.get(name)
GetGet ==
    /\ GetTick
    /\ \E n \in GetNames :
            LET r == TObject_get(objects, "1", n, is_case_sensitive(swf_version))
            IN  last' = [NoLast EXCEPT !.op = "get", !.obj = "1", !.name = n,
                                      !.res = r.res, !.calls = r.calls]
    /\ UNCHANGED objects

NextGet ==
    \/ GetDefineValue
    \/ GetAddProperty
    \/ GetSetProto
    \/ GetGet

SpecGet == InitGet /\ [][NextGet]_vars

\* The place of the prototype of the receiver, or one past the last place
\* when it has none.
GetSecond ==
    IF objects["1"].prototype = Object("2") THEN 2
    ELSE IF objects["1"].prototype = Object("3") THEN 3
    ELSE ChainLen + 1

\* The places of the receiver and of the objects its proto links lead to:
\* the links of the other objects stay as they were made.
GetOnChain(i) == i = 1 \/ (GetSecond <= i /\ i <= ChainLen)

\* How many objects come before place i on the chain of the receiver.
GetDepth(i) == IF i = 1 THEN 0 ELSE i - GetSecond + 1

\* The places on the chain of the objects that have the name of the
\* latest operation locally (only the objects at GetPlaces are given
\* properties), and the first of them.
GetHolders ==
    {i \in GetPlaces :
        /\ GetOnChain(i)
        /\ PM_contains_key(objects[ToString(i)].values, last.name, CS)}

GetNearest == CHOOSE i \in GetHolders : \A j \in GetHolders : i <= j

GetProperty == PM_get(objects[ToString(GetNearest)].values, last.name, CS)[1]

\* What the nearest holder's property gives: the stored value, or what
\* its getter returns or throws, run on the receiver.
GetValue ==
    IF is_virtual(GetProperty) THEN Executable_exec(GetProperty.getter[1], <<>>)
    ELSE Ok(GetProperty.data[1])

GetCalls ==
    IF is_virtual(GetProperty)
    THEN <<Call(GetProperty.getter[1], "[Getter]", "1", GetDepth(GetNearest), <<>>)>>
    ELSE <<>>

\* C30 as claimed: get(name) returns the value of the nearest object of
\* the chain that has name locally, with a getter run on the receiver;
\* get("__proto__") returns proto() and does not read the table.
C30_Original ==
    last.op = "get" =>
        IF last.name = "__proto__"
        THEN last.res = Ok(objects["1"].prototype) /\ last.calls = <<>>
        ELSE GetHolders # {} => last.res = GetValue /\ last.calls = GetCalls

\* C30 as amended: get(name) returns the value of the nearest object of
\* the chain that has name locally, with a getter run on the receiver,
\* when fewer than 255 objects without name come before it, and fails
\* with the recursion limit error otherwise; get("__proto__") returns
\* proto() and does not read the table.
C30_GetNearest ==
    last.op = "get" =>
        IF last.name = "__proto__"
        THEN last.res = Ok(objects["1"].prototype) /\ last.calls = <<>>
        ELSE GetHolders # {} =>
                IF GetDepth(GetNearest) < U8_MAX
                THEN last.res = GetValue /\ last.calls = GetCalls
                ELSE last.res = PrototypeRecursionLimit /\ last.calls = <<>>

\* get has run the getter of the third object, the receiver's prototype
\* since its __proto__ was set, on the receiver.
C30_Witness ==
    /\ last.op = "get"
    /\ last.name = "x"
    /\ objects["1"].prototype = Object("3")
    /\ GetHolders = {3}
    /\ last.calls = <<Call("fconst", "[Getter]", "1", 1, <<>>)>>
    /\ last.res = Ok(String(StrVirtual))

\* get of x, held by the 256th object only, has failed with the recursion
\* limit error.
C30_LimitReached ==
    /\ last.op = "get"
    /\ last.name = "x"
    /\ GetHolders = {U8_MAX + 1}
    /\ last.res = PrototypeRecursionLimit

\* get("__proto__") has returned the prototype while the table of the
\* receiver holds another value under that name.
C30_ProtoNotFromTable ==
    /\ last.op = "get"
    /\ last.name = "__proto__"
    /\ PM_get(objects["1"].values, "__proto__", CS) =
            Some(new_stored(Number(Fin(1)), Attribute_empty))
    /\ last.res = Ok(Null)

\* get has returned the stored value of the receiver, not its prototype's.
C30_NearestReached ==
    /\ last.op = "get"
    /\ last.name = "x"
    /\ GetHolders = {1, 2}
    /\ last.res = Ok(Number(Fin(1)))

(***************************************************************************)
(* SpecDefine: Scope::define and Scope::delete on the chains of            *)
(* ResolveArena, in a case-insensitive (6) or case-sensitive (7) movie,    *)
(* with the names a and A stored or virtual on the locals objects.         *)
(***************************************************************************)
MaxDefineOps == 3

DefineNames == {"a", "A"}
DefineAttributes == {Attribute_empty, {DONT_DELETE}}

DefineTick ==
    /\ steps < MaxDefineOps
    /\ steps' = steps + 1
    /\ UNCHANGED <<scopes, scope, swf_version>>

InitDefine ==
    /\ objects = [o \in ResolveObjects |->
                    ScriptObject_object(IF o = "o3" THEN Some("o4") ELSE None)]
    /\ scopes = ResolveArena
    /\ scope \in 1..Len(ResolveArena)
    /\ swf_version \in {6, 7}
    /\ last = NoLast
    /\ steps = 0

\* o.define_value(name, "initial", attributes)
DefineDefineValue ==
    /\ DefineTick
    /\ \E o \in ResolveObjects, n \in DefineNames, a \in DefineAttributes :
            /\ objects' = ScriptObject_define_value(objects, o, n,
                                                    String(StrInitial), a)
            /\ last' = [NoLast EXCEPT !.op = "define_value", !.obj = o, !.name = n]

\* o.add_property_with_case("a", getter, Some(setter), empty) and
\* o.set_watcher("a", watcher)
DefineAddProperty ==
    /\ DefineTick
    /\ \E o \in {"o2", "o3"} :
            /\ objects' = ScriptObject_set_watcher(
                    ScriptObject_add_property_with_case(objects, o, "a", "fconst",
                        Some("fnew"), Attribute_empty,
                        is_case_sensitive(swf_version)),
                    o, "a", "fconst", Undefined, is_case_sensitive(swf_version))
            /\ last' = [NoLast EXCEPT !.op = "add_property", !.obj = o, !.name = "a"]

\* scope.define(name, "replaced", mc); last.obj is the locals of the scope.
DefineDefine ==
    /\ DefineTick
    /\ \E n \in DefineNames \cup {"__proto__"} :
            /\ objects' = Scope_define(objects, scopes, scope, n, String(StrReplaced))
            /\ last' = [NoLast EXCEPT !.op = "define", !.obj = scopes[scope].values,
                                      !.name = n, !.arg = String(StrReplaced),
                                      !.scope = scope]

\* scope.delete(activation, name); last.obj is the locals delete was
\* called on, if any.
DefineDelete ==
    /\ DefineTick
    /\ \E n \in DefineNames :
            LET r == Scope_delete(objects, scopes, scope, n,
                                  is_case_sensitive(swf_version))
            IN  /\ objects' = r.objs
                /\ last' = [NoLast EXCEPT !.op = "delete", !.name = n,
                                !.obj = IF r.at = NoScope THEN NoObject
                                        ELSE scopes[r.at].values,
                                !.flag = r.flag, !.scope = scope]

NextDefine ==
    \/ DefineDefineValue
    \/ DefineAddProperty
    \/ DefineDefine
    \/ DefineDelete

SpecDefine == InitDefine /\ [][NextDefine]_vars

\* How many own entries of o the name n matches in the movie's case rule.
DefineCount(objs, o, n) ==
    Cardinality({i \in 1..Len(objs[o].values) : KeyEq(objs[o].values[i].key, n, CS)})

\* What resolve of the latest name gives after the step.
DefineResolved == Scope_resolve(objects', scopes, scope, last'.name, CS)

\* C33: Scope::define(name, v) leaves v as a stored property with empty
\* attributes under name on the locals of the innermost link, in place of
\* what they held under name, and changes no other object; resolve(name)
\* on the same scope then returns v with those locals as owner.
C33_Original ==
    [][last'.op = "define" =>
        /\ PM_get(objects'[last'.obj].values, last'.name, CS)
                = Some(new_stored(last'.arg, Attribute_empty))
        /\ DefineCount(objects', last'.obj, last'.name) = 1
        /\ \A o \in DOMAIN objects \ {last'.obj} : objects'[o] = objects[o]
        /\ DefineResolved.res = Ok(Callable(last'.obj, last'.arg))]_vars

\* In a SWF 6 movie define("a") on locals that hold A has added a second
\* entry, and resolve("a") still gives the value of A.
C33_Witness ==
    /\ last.op = "define"
    /\ last.name = "a"
    /\ swf_version = 6
    /\ PM_keys(objects[last.obj].values) = <<"A", "a">>
    /\ Scope_resolve(objects, scopes, scope, "a", CS).res
            = Ok(Callable(last.obj, String(StrInitial)))

\* What Scope::define does: looked up by the exact spelling, name holds v
\* as a stored property with empty attributes on the locals of the
\* innermost link, whatever it held before; every other entry of those
\* locals, their watchers and prototype and every other object are as
\* before; and resolve(name) returns v with those locals as owner unless
\* name is __proto__ or, in a case-insensitive movie, the locals held
\* another spelling of name.
C33_DefineFrame ==
    [][last'.op = "define" =>
        /\ last'.obj = scopes[scope].values
        /\ PM_get(objects'[last'.obj].values, last'.name, TRUE)
                = Some(new_stored(last'.arg, Attribute_empty))
        /\ \A k \in (DefineNames \cup {"__proto__"}) \ {last'.name} :
                PM_get(objects'[last'.obj].values, k, TRUE)
                    = PM_get(objects[last'.obj].values, k, TRUE)
        /\ objects'[last'.obj].watchers = objects[last'.obj].watchers
        /\ objects'[last'.obj].prototype = objects[last'.obj].prototype
        /\ \A o \in DOMAIN objects \ {last'.obj} : objects'[o] = objects[o]
        /\ (last'.name # "__proto__"
                /\ (CS \/ \A k \in DefineNames \ {last'.name} :
                            PM_get(objects[last'.obj].values, k, TRUE) = None))
            => DefineResolved.res = Ok(Callable(last'.obj, last'.arg))]_vars

\* define("a") on [local(o3), target(o2), global(o1)] has replaced the
\* watched getter/setter pair a of o3 and left the a of o2 as it was.
C33_ShadowReached ==
    /\ last.op = "define"
    /\ last.name = "a"
    /\ scope = 3
    /\ PM_get(objects["o3"].watchers, "a", CS) # None
    /\ PM_get(objects["o3"].values, "a", TRUE)
            = Some(new_stored(String(StrReplaced), Attribute_empty))
    /\ PM_get(objects["o2"].values, "a", TRUE)
            = Some(new_stored(String(StrInitial), Attribute_empty))

\* The links of the activation's chain whose locals have the name n.
DefineHolders(n) ==
    {i \in 1..Len(ScopeChain(scopes, scope)) : has_property(objects, ResolveLocals(i), n, CS)}

DefineFirst(n) == ResolveLocals(ResolveInnermost(DefineHolders(n)))

\* C34: Scope::delete(name) acts on the first link whose locals
\* has_property(name) only: it returns the result of delete(name) on
\* those locals and changes no other object, and returns false when no
\* link has the name; when it returns true, name is no longer an own
\* property of those locals.
C34_Original ==
    [][last'.op = "delete" =>
        IF DefineHolders(last'.name) = {}
        THEN ~last'.flag /\ UNCHANGED objects
        ELSE /\ last'.obj = DefineFirst(last'.name)
             /\ last'.flag = Object_delete(objects, last'.obj, last'.name, CS).flag
             /\ \A o \in DOMAIN objects \ {last'.obj} : objects'[o] = objects[o]
             /\ last'.flag =>
                    ~PM_contains_key(objects'[last'.obj].values, last'.name, CS)]_vars

\* In a SWF 6 movie delete("a") on locals that held A and a has returned
\* true, removed A, and a is still an own property.
C34_Witness ==
    /\ last.op = "delete"
    /\ last.name = "a"
    /\ last.flag
    /\ swf_version = 6
    /\ PM_keys(objects[last.obj].values) = <<"a">>
    /\ steps = 3

\* What Scope::delete does: it acts on the first link whose locals
\* has_property(name) only, returns the result of delete(name) on those
\* locals and changes no other object, and returns false when no link has
\* the name; when it returns true the locals have lost one entry, the
\* first that name matches, and when it returns false nothing changed.
C34_DeleteFrame ==
    [][last'.op = "delete" =>
        IF DefineHolders(last'.name) = {}
        THEN ~last'.flag /\ UNCHANGED objects /\ last'.obj = NoObject
        ELSE /\ last'.obj = DefineFirst(last'.name)
             /\ last'.flag = Object_delete(objects, last'.obj, last'.name, CS).flag
             /\ \A o \in DOMAIN objects \ {last'.obj} : objects'[o] = objects[o]
             /\ last'.flag =>
                    /\ DefineCount(objects', last'.obj, last'.name)
                            = DefineCount(objects, last'.obj, last'.name) - 1
                    /\ objects'[last'.obj].values
                            = PM_remove(objects[last'.obj].values, last'.name, CS)
             /\ ~last'.flag => UNCHANGED objects]_vars

\* delete("a") on [local(o3), target(o2), global(o1)] has stopped at o3,
\* which inherits a from o4, returned false and left the a of o2 and o4.
C34_InheritedReached ==
    /\ last.op = "delete"
    /\ scope = 3
    /\ last.obj = "o3"
    /\ ~last.flag
    /\ PM_get(objects["o3"].values, "a", CS) = None
    /\ PM_get(objects["o4"].values, "a", CS) # None
    /\ PM_get(objects["o2"].values, "a", CS) # None

(***************************************************************************)
(* LoadVars (avm1/globals/load_vars.rs) and the future of its loader       *)
(* (loader.rs, load_vars_loader).  The native functions of                 *)
(* LoadVars.prototype are the function objects on_data, on_load and        *)
(* decode; a script function is one of FuncIds.  Every call is recorded:   *)
(* which method was asked for, by whom, the function found, the arguments  *)
(* and the result; a write of loaded by on_data is recorded too.           *)
(***************************************************************************)
VarsEvent(by, name, fn, args, res) ==
    [by |-> by, name |-> name, fn |-> fn, args |-> args, res |-> res]

\* UTF_8.decode(&data).0: a byte that is no UTF-8 text becomes U+FFFD.
Utf8Char(b) ==
    CASE b = 97 -> "a"
      [] b = 98 -> "b"
      [] b = 61 -> "="
      [] b = 38 -> "&"
      [] OTHER -> "U+FFFD"

UTF_8_decode(data) == [i \in 1..Len(data) |-> Utf8Char(data[i])]

\* The index of the first c in s, 0 when there is none.
first_index(s, c) ==
    IF \E i \in 1..Len(s) : s[i] = c
    THEN CHOOSE i \in 1..Len(s) : s[i] = c /\ \A j \in 1..(i - 1) : s[j] # c
    ELSE 0

\* One name=value segment: the name is what stands before the first "=",
\* the value what stands after it.
form_pair_at(seg, i) ==
    IF i = 0 THEN [k |-> seg, v |-> <<>>]
    ELSE [k |-> SubSeq(seg, 1, i - 1), v |-> SubSeq(seg, i + 1, Len(seg))]

\* url::form_urlencoded::parse: the segments between "&", the empty ones
\* skipped.  The text of the model holds no "%" and no "+".
RECURSIVE form_urlencoded_parse(_)
form_urlencoded_rest(s, i) ==
    (IF (IF i = 0 THEN s ELSE SubSeq(s, 1, i - 1)) = <<>> THEN <<>>
     ELSE <<form_pair_at(IF i = 0 THEN s ELSE SubSeq(s, 1, i - 1),
                         first_index(IF i = 0 THEN s ELSE SubSeq(s, 1, i - 1), "="))>>)
        \o (IF i = 0 THEN <<>> ELSE form_urlencoded_parse(SubSeq(s, i + 1, Len(s))))
form_urlencoded_parse(s) ==
    IF s = <<>> THEN <<>> ELSE form_urlencoded_rest(s, first_index(s, "&"))

\* The property name a string of one character or none is.
property_name(k) == IF k = <<>> THEN "" ELSE k[1]

\* load_vars::decode, the for loop from the i-th pair on: this.set(k, v)?
RECURSIVE decode_loop(_, _, _, _, _, _)
decode_set(objs, this, pairs, i, cs, overflow_checks, r) ==
    IF r.res.kind # "Ok" THEN [objs |-> r.objs, res |-> r.res]
    ELSE decode_loop(r.objs, this, pairs, i + 1, cs, overflow_checks)
decode_loop(objs, this, pairs, i, cs, overflow_checks) ==
    IF i > Len(pairs) THEN [objs |-> objs, res |-> Ok(Undefined)]
    ELSE decode_set(objs, this, pairs, i, cs, overflow_checks,
                    TObject_set(objs, this, property_name(pairs[i].k),
                                String(pairs[i].v), cs, overflow_checks))

\* load_vars::decode; the argument is a string.
decode(objs, this, args, cs, overflow_checks) ==
    IF args = <<>> THEN [objs |-> objs, res |-> Ok(Undefined)]
    ELSE decode_loop(objs, this, form_urlencoded_parse(args[1].val), 1, cs,
                     overflow_checks)

\* load_vars::on_load
on_load(objs) == [objs |-> objs, res |-> Ok(Undefined)]

\* method.call(...) of call_method for a method that is not on_data: the
\* heap after the call and the result.
vars_call(objs, this, method, args, cs, overflow_checks) ==
    IF method = Object("decode") THEN decode(objs, this, args, cs, overflow_checks)
    ELSE IF method = Object("on_load") THEN on_load(objs)
    ELSE IF method.tag = "Object" /\ as_executable(method.val) # None
    THEN [objs |-> objs, res |-> Executable_exec(method.val, args)]
    ELSE [objs |-> objs, res |-> Ok(Undefined)]

\* this.call_method(name, args, activation) for such a method: the heap,
\* the result and the record of the call.
vars_call_method_found(objs, by, this, name, args, method, r) ==
    [objs |-> r.objs, res |-> r.res,
     log |-> <<VarsEvent(by, name, method, args, r.res)>>]
vars_call_method_call(objs, by, this, name, args, cs, overflow_checks, method) ==
    vars_call_method_found(objs, by, this, name, args, method,
        vars_call(objs, this, method, args, cs, overflow_checks))
vars_call_method(objs, by, this, name, args, cs, overflow_checks) ==
    vars_call_method_call(objs, by, this, name, args, cs, overflow_checks,
        search_prototype(objs, Object(this), name, this, cs).res.val)

\* load_vars::on_data after this.call_method("onLoad", [success])?
on_data_called(log, r) ==
    [objs |-> r.objs,
     res |-> IF r.res.kind = "Ok" THEN Ok(Undefined) ELSE r.res,
     log |-> log \o r.log]

\* load_vars::on_data from this.call_method("onLoad", [success]) on.
on_data_on_load(objs, this, success, log, cs, overflow_checks) ==
    on_data_called(log,
        vars_call_method(objs, "on_data", this, "onLoad", <<Bool(success)>>,
                         cs, overflow_checks))

\* load_vars::on_data after this.set("loaded", true)?
on_data_loaded(this, log, cs, overflow_checks, s) ==
    IF s.res.kind # "Ok"
    THEN [objs |-> s.objs, res |-> s.res, log |-> log]
    ELSE on_data_on_load(s.objs, this, TRUE,
            log \o <<VarsEvent("on_data", "set", Undefined,
                               <<String(<<"loaded">>), Bool(TRUE)>>, s.res)>>,
            cs, overflow_checks)

\* on_data with loaded set before decode is called.
on_data_decoded_LoadedFirst(this, cs, overflow_checks, d) ==
    on_data_on_load(
        TObject_set(d.objs, this, "loaded", Bool(TRUE), cs, overflow_checks).objs,
        this, TRUE,
        <<VarsEvent("on_data", "set", Undefined,
                    <<String(<<"loaded">>), Bool(TRUE)>>, Ok(Undefined))>> \o d.log,
        cs, overflow_checks)

\* load_vars::on_data after this.call_method("decode", [val])?
on_data_decoded(this, cs, overflow_checks, d) ==
    IF d.res.kind # "Ok"
    THEN [objs |-> d.objs, res |-> d.res, log |-> d.log]
    ELSE on_data_loaded(this, d.log, cs, overflow_checks,
            TObject_set(d.objs, this, "loaded", Bool(TRUE), cs, overflow_checks))

\* load_vars::on_data
on_data(objs, this, args, cs, overflow_checks) ==
    IF args = <<>> \/ args[1] \in {Undefined, Null}
    THEN on_data_on_load(objs, this, FALSE, <<>>, cs, overflow_checks)
    ELSE on_data_decoded(this, cs, overflow_checks,
            vars_call_method(objs, "on_data", this, "decode", <<args[1]>>,
                             cs, overflow_checks))

\* let _ = that.call_method(name, 0, args, activation) of load_vars_loader:
\* the heap after the call and the calls made; the result is dropped.
loader_call_found(objs, that, name, args, method, r) ==
    [objs |-> r.objs,
     log |-> <<VarsEvent("loader", name, method, args, r.res)>> \o r.log]
loader_call_other(r) == [objs |-> r.objs, res |-> r.res, log |-> <<>>]
loader_call_method_call(objs, that, name, args, cs, overflow_checks, method) ==
    loader_call_found(objs, that, name, args, method,
        IF method = Object("on_data")
        THEN on_data(objs, that, args, cs, overflow_checks)
        ELSE loader_call_other(vars_call(objs, that, method, args, cs,
                                         overflow_checks)))
loader_call_method(objs, that, name, args, cs, overflow_checks) ==
    loader_call_method_call(objs, that, name, args, cs, overflow_checks,
        search_prototype(objs, Object(that), name, that, cs).res.val)

HTTP_NOT_FOUND == 404

\* The Err arm of load_vars_loader after onHTTPStatus(404).
load_vars_loader_failed_data(h, d) == [objs |-> d.objs, log |-> h.log \o d.log]
load_vars_loader_failed(that, cs, overflow_checks, h) ==
    load_vars_loader_failed_data(h,
        loader_call_method(h.objs, that, "onData", <<Undefined>>, cs,
                           overflow_checks))

\* Loader::load_vars_loader after fetch.await, in player.update: data is
\* Some(bytes) for Ok(data) and None for Err(_).
load_vars_loader(objs, that, data, cs, overflow_checks) ==
    IF data # None
    THEN loader_call_method(objs, that, "onData",
                            <<String(UTF_8_decode(data[1]))>>, cs, overflow_checks)
    ELSE load_vars_loader_failed(that, cs, overflow_checks,
            loader_call_method(objs, that, "onHTTPStatus",
                               <<Number(Fin(HTTP_NOT_FOUND))>>, cs, overflow_checks))

\* The hidden property name of spawn_load_var_fetch: defined when the
\* object has no such property, and set else.
hidden_property_set(r) == [objs |-> r.objs, res |-> r.res]
hidden_property(objs, loader_object, name, value, cs, overflow_checks) ==
    IF ~has_property(objs, loader_object, name, cs)
    THEN [objs |-> Object_define_value(objs, loader_object, name, value,
                                       {DONT_DELETE, DONT_ENUM}),
          res |-> Ok(Undefined)]
    ELSE hidden_property_set(TObject_set(objs, loader_object, name, value, cs,
                                         overflow_checks))

\* load_vars::spawn_load_var_fetch on the heap: _bytesLoaded, then loaded.
spawn_load_var_fetch_loaded(loader_object, cs, overflow_checks, b) ==
    IF b.res.kind # "Ok" THEN b
    ELSE hidden_property(b.objs, loader_object, "loaded", Bool(FALSE), cs,
                         overflow_checks)
spawn_load_var_fetch(objs, loader_object, cs, overflow_checks) ==
    spawn_load_var_fetch_loaded(loader_object, cs, overflow_checks,
        hidden_property(objs, loader_object, "_bytesLoaded", Number(Fin(0)), cs,
                        overflow_checks))

\* load_vars::create_proto: the properties of LoadVars.prototype the
\* loader and on_data look up.
LoadVars_create_proto(objs, proto) ==
    Object_define_value(
        Object_define_value(
            Object_define_value(objs, proto, "decode", Object("decode"),
                                {DONT_DELETE, READ_ONLY, DONT_ENUM}),
            proto, "onLoad", Object("on_load"), {DONT_DELETE, READ_ONLY, DONT_ENUM}),
        proto, "onData", Object("on_data"), {DONT_DELETE, READ_ONLY, DONT_ENUM})

(***************************************************************************)
(* SpecLoadVars: a script calls load on the LoadVars object lv up to       *)
(* MaxVarsLoads times and assigns functions to its handlers; the fetches   *)
(* end in any order, well or badly.  objects is the heap, scopes the arena *)
(* of the LoadManager, steps the number of script steps, last.calls the    *)
(* calls of the latest completion.                                         *)
(***************************************************************************)
MaxVarsLoads == 2
MaxVarsOps == 3

VarsHandles == 1..MaxVarsLoads
VarsVersions == {6, 7}
VarsHandlers == {"onData", "decode", "onLoad", "onHTTPStatus"}
VarsFunctions == {"fconst", "fthrow"}
VarsData == {<<>>, <<97, 61, 98>>, <<255>>}

InitLoadVars ==
    /\ objects = LoadVars_create_proto(
                    [o \in {"lv", "lvp", "op"} |->
                        ScriptObject_object(IF o = "lv" THEN Some("lvp")
                                            ELSE IF o = "lvp" THEN Some("op")
                                            ELSE None)], "lvp")
    /\ scopes = <<>>
    /\ scope = NoScope
    /\ swf_version \in VarsVersions
    /\ last = NoLast
    /\ steps = 0

\* lv.load(url)
VarsLoad ==
    /\ steps < MaxVarsOps
    /\ Cardinality(DOMAIN scopes) < MaxVarsLoads
    /\ steps' = steps + 1
    /\ scopes' = load_form_into_load_vars(scopes, Cardinality(DOMAIN scopes) + 1)
    /\ \E overflow_checks \in BOOLEAN :
            objects' = spawn_load_var_fetch(objects, "lv", CS, overflow_checks).objs
    /\ last' = [NoLast EXCEPT !.op = "load", !.obj = Cardinality(DOMAIN scopes) + 1]
    /\ UNCHANGED <<scope, swf_version>>

\* lv[name] = f
VarsSetHandler ==
    /\ steps < MaxVarsOps
    /\ steps' = steps + 1
    /\ \E name \in VarsHandlers, f \in VarsFunctions, overflow_checks \in BOOLEAN :
            /\ objects' = TObject_set(objects, "lv", name, Object(f), CS,
                                      overflow_checks).objs
            /\ last' = [NoLast EXCEPT !.op = "set", !.obj = "lv", !.name = name,
                                      !.arg = Object(f)]
    /\ UNCHANGED <<scopes, scope, swf_version>>

\* The heap and the record of the calls after the future of loader h.
VarsFetchedDone(h, data, r) ==
    /\ objects' = r.objs
    /\ last' = [NoLast EXCEPT !.op = "fetched", !.obj = h,
                    !.flag = (data # None), !.keys = data, !.calls = r.log]

\* The fetch of loader h ends and its future runs to its end.
VarsFetched(h) ==
    /\ h \in DOMAIN scopes
    /\ scopes[h].process = "spawned"
    /\ scopes' = data_loader_finished(scopes, h)
    /\ \E data \in {None} \cup {Some(d) : d \in VarsData},
          overflow_checks \in BOOLEAN :
            VarsFetchedDone(h, data,
                load_vars_loader(objects, "lv", data, CS, overflow_checks))
    /\ UNCHANGED <<scope, swf_version, steps>>

NextLoadVars ==
    \/ VarsLoad
    \/ VarsSetHandler
    \/ \E h \in VarsHandles : VarsFetched(h)

SpecLoadVars == InitLoadVars /\ [][NextLoadVars]_vars

\* The loaders whose fetch has not ended.
VarsPending(arena) == {h \in DOMAIN arena : arena[h].process = "spawned"}

\* The value lv holds as its own property name, if any.
VarsOwn(objs, name) ==
    IF PM_get(objs["lv"].values, name, CS) = None THEN None
    ELSE PM_get(objs["lv"].values, name, CS)[1].data

\* The calls of a log made by the loader, and those made by on_data.
VarsBy(log, by) == SelectSeq(log, LAMBDA e : e.by = by)

\* What a log asked for: the names and the arguments, in order.
VarsShape(log) == [i \in 1..Len(log) |-> <<log[i].name, log[i].args>>]

\* What the loader is to call at the end of a fetch that gave data.
VarsLoaderCalls(data) ==
    IF data # None
    THEN <<(<<"onData", <<String(UTF_8_decode(data[1]))>>>>)>>
    ELSE <<(<<"onHTTPStatus", <<Number(Fin(HTTP_NOT_FOUND))>>>>),
           (<<"onData", <<Undefined>>>>)>>

\* What the default onData does when every call returns.
VarsOnDataCalls(arg) ==
    IF arg \in {Undefined, Null}
    THEN <<(<<"onLoad", <<Bool(FALSE)>>>>)>>
    ELSE <<(<<"decode", <<arg>>>>),
           (<<"set", <<String(<<"loaded">>), Bool(TRUE)>>>>),
           (<<"onLoad", <<Bool(TRUE)>>>>)>>

\* The onData call of the loader in a log.
VarsOnData(log) == VarsBy(log, "loader")[Len(VarsBy(log, "loader"))]

VarsOnDataDone(log) ==
    IF log # <<>> /\ log[1].name = "decode" /\ log[1].res.kind # "Ok"
    THEN <<(<<"decode", log[1].args>>)>>
    ELSE VarsOnDataCalls(IF log # <<>> /\ log[1].name = "decode"
                         THEN log[1].args[1] ELSE Undefined)

C36_FailedReached ==
    /\ last.op = "fetched"
    /\ ~last.flag
    /\ Len(last.calls) = 3
    /\ last.calls[1].fn = Undefined
    /\ last.calls[3].args = <<Bool(FALSE)>>
    /\ VarsOwn(objects, "loaded") = Some(Bool(FALSE))

\* The decode of the script threw: the default onData neither set loaded
\* nor called onLoad.
C36_DecodeThrewReached ==
    /\ last.op = "fetched"
    /\ last.flag
    /\ Len(last.calls) = 2
    /\ last.calls[1].fn = Object("on_data")
    /\ last.calls[2].fn = Object("fthrow")
    /\ VarsOwn(objects, "loaded") = Some(Bool(FALSE))

\* Bytes that are no UTF-8 text have reached decode as U+FFFD.
C36_LossyReached ==
    /\ last.op = "fetched"
    /\ last.keys = Some(<<255>>)
    /\ VarsOwn(objects, "U+FFFD") = Some(String(<<>>))

(***************************************************************************)
(* The messages of a movie loader.  movie_loader broadcasts through        *)
(* Avm1::run_stack_frame_for_method, at once; movie_clip_loaded queues.    *)
(***************************************************************************)
Broadcast(loader, args) ==
    [clip |-> loader.target_clip, object |-> loader.target_broadcaster[1],
     name |-> "broadcastMessage", args |-> args]

\* The first update of movie_loader: onLoadStart.
movie_loader_start_broadcasts(loader) ==
    IF loader.target_broadcaster = None THEN <<>>
    ELSE <<Broadcast(loader, <<"onLoadStart", Object(loader.target_broadcaster[1])>>)>>

\* The update after fetch.await with onLoadComplete sent on both arms.
movie_loader_fetched_broadcasts_CompleteAlways(loader, ok, length) ==
    IF (ok /\ loader.replacing_root_movie) \/ loader.target_broadcaster = None
    THEN <<>>
    ELSE (IF ok
          THEN <<Broadcast(loader, <<"onLoadProgress",
                                     Object(loader.target_broadcaster[1]),
                                     Number(Fin(length)), Number(Fin(length))>>)>>
          ELSE <<Broadcast(loader, <<"onLoadError",
                                     Object(loader.target_broadcaster[1]),
                                     "LoadNeverCompleted">>)>>)
         \o <<Broadcast(loader, <<"onLoadComplete",
                                  Object(loader.target_broadcaster[1])>>)>>

\* The update of movie_loader after fetch.await: nothing when the root
\* movie was replaced, onLoadProgress and onLoadComplete for a movie of
\* length bytes, onLoadError for a fetch or a movie that failed.
movie_loader_fetched_broadcasts(loader, ok, length) ==
    IF (ok /\ loader.replacing_root_movie) \/ loader.target_broadcaster = None
    THEN <<>>
    ELSE IF ok
    THEN <<Broadcast(loader, <<"onLoadProgress",
                               Object(loader.target_broadcaster[1]),
                               Number(Fin(length)), Number(Fin(length))>>),
           Broadcast(loader, <<"onLoadComplete",
                               Object(loader.target_broadcaster[1])>>)>>
    ELSE <<Broadcast(loader, <<"onLoadError",
                               Object(loader.target_broadcaster[1]),
                               "LoadNeverCompleted">>)>>

(***************************************************************************)
(* SpecBroadcast: up to MaxBroadcastLoads movies are loaded into clips;    *)
(* the executor runs the futures, the fetches end well or badly, and the   *)
(* clips fire their load events at any time.  objects is the arena of the  *)
(* LoadManager, steps the number of handles given out, and scopes keeps    *)
(* for every handle the loader as it was registered and every message      *)
(* broadcast or queued for it, in order.                                   *)
(***************************************************************************)
MaxBroadcastLoads == 2

BroadcastHandles == 1..MaxBroadcastLoads
BroadcastLengths == {0, 3}

InitBroadcast ==
    /\ objects = <<>>
    /\ scopes = <<>>
    /\ scope = NoScope
    /\ swf_version = 6
    /\ last = NoLast
    /\ steps = 0

\* The history with the messages sent for handle h added.
BroadcastSent(h, sent) == [scopes EXCEPT ![h].sent = @ \o sent]

\* load_movie_into_clip(clip, url, broadcaster)
BroadcastLoad ==
    /\ steps < MaxBroadcastLoads
    /\ steps' = steps + 1
    /\ \E clip \in LoaderClips, b \in LoaderBroadcasters :
            /\ objects' = load_movie_into_clip(objects, steps + 1, clip, b)
            /\ scopes' = [h \in DOMAIN scopes \cup {steps + 1} |->
                            IF h = steps + 1
                            THEN [target_clip |-> clip, target_broadcaster |-> b,
                                  sent |-> <<>>]
                            ELSE scopes[h]]
    /\ last' = [NoLast EXCEPT !.op = "add_loader", !.obj = steps + 1]
    /\ UNCHANGED <<scope, swf_version>>

\* The executor polls the future of loader h for the first time.
BroadcastStart(h) ==
    /\ h \in DOMAIN objects
    /\ objects[h].process = "spawned"
    /\ objects' = movie_loader_start(objects, h, "root")
    /\ scopes' = BroadcastSent(h, movie_loader_start_broadcasts(objects[h]))
    /\ last' = [NoLast EXCEPT !.op = "start", !.obj = h]
    /\ UNCHANGED <<scope, swf_version, steps>>

\* The fetch of loader h ends.
BroadcastFetched(h) ==
    /\ h \in DOMAIN objects
    /\ objects[h].process = "fetching"
    /\ \E ok \in BOOLEAN, length \in BroadcastLengths :
            /\ objects' = movie_loader_fetched(objects, h, ok)
            /\ scopes' = BroadcastSent(h,
                            movie_loader_fetched_broadcasts(objects[h], ok, length))
            /\ last' = [NoLast EXCEPT !.op = "fetched", !.obj = h, !.flag = ok]
    /\ UNCHANGED <<scope, swf_version, steps>>

\* A clip has run its first frame: load_manager.movie_clip_on_load.
BroadcastClipOnLoad(clip) ==
    /\ \E clip_object \in LoaderClipObjects :
            /\ objects' = movie_clip_on_load(objects, steps, clip, clip_object).arena
            /\ scopes' = [h \in DOMAIN scopes |->
                            IF h \in DOMAIN objects
                            THEN [scopes[h] EXCEPT !.sent = @ \o
                                    movie_clip_loaded(objects[h], clip,
                                                      clip_object).queued]
                            ELSE scopes[h]]
            /\ last' = [NoLast EXCEPT !.op = "movie_clip_on_load", !.obj = clip,
                            !.calls = movie_clip_on_load(objects, steps, clip,
                                                         clip_object).queued]
    /\ UNCHANGED <<scope, swf_version, steps>>

NextBroadcast ==
    \/ BroadcastLoad
    \/ \E h \in BroadcastHandles : BroadcastStart(h)
    \/ \E h \in BroadcastHandles : BroadcastFetched(h)
    \/ \E clip \in LoaderClips : BroadcastClipOnLoad(clip)

SpecBroadcast == InitBroadcast /\ [][NextBroadcast]_vars

\* The names of the messages sent for handle h, in order.
BroadcastNames(history, h) ==
    [i \in 1..Len(history[h].sent) |-> history[h].sent[i].args[1]]

\* The loaders the claim is about: with a broadcaster, not into the root.
BroadcastListened(history) ==
    {h \in DOMAIN history :
        /\ history[h].target_broadcaster # None
        /\ history[h].target_clip # "root"}

\* The status the messages sent so far stand for.
BroadcastStatus(names) ==
    IF names \in {<<>>, <<"onLoadStart">>} THEN "Pending"
    ELSE IF names = <<"onLoadStart", "onLoadError">> THEN "Failed"
    ELSE "Succeeded"

\* C37: for a movie loader with a broadcaster and a target that is not the
\* root clip the messages are onLoadStart, then onLoadProgress and
\* onLoadComplete with the status Succeeded, or onLoadError with the
\* status Failed, never both; onLoadInit is queued at most once, after
\* onLoadComplete only; and a status of Succeeded or Failed stays.
C37_BroadcastOrder ==
    [][/\ \A h \in BroadcastListened(scopes') :
            /\ BroadcastNames(scopes', h) \in
                    {<<>>, <<"onLoadStart">>,
                     <<"onLoadStart", "onLoadProgress", "onLoadComplete">>,
                     <<"onLoadStart", "onLoadError">>,
                     <<"onLoadStart", "onLoadProgress", "onLoadComplete",
                       "onLoadInit">>}
            /\ h \in DOMAIN objects' =>
                    /\ objects'[h].loader_status
                            = BroadcastStatus(BroadcastNames(scopes', h))
                    /\ Len(scopes'[h].sent) < 4
       /\ \A h \in DOMAIN objects \cap DOMAIN objects' :
            objects[h].loader_status \in {"Succeeded", "Failed"} =>
                objects'[h].loader_status = objects[h].loader_status]_vars

\* A loader into c1 has sent onLoadStart, onLoadProgress and
\* onLoadComplete and had its onLoadInit queued, and another has sent
\* onLoadStart and onLoadError and was removed with nothing queued.
C37_Witness ==
    /\ \E h \in BroadcastListened(scopes) :
            /\ Len(scopes[h].sent) = 4
            /\ scopes[h].sent[4] = OnLoadInit("c1", "b1", Some("co"))
            /\ h \notin DOMAIN objects
    /\ \E h \in BroadcastListened(scopes) :
            /\ BroadcastNames(scopes, h) = <<"onLoadStart", "onLoadError">>
            /\ h \notin DOMAIN objects

\* A loader into the root clip has finished after onLoadStart alone.
C37_RootReached ==
    \E h \in DOMAIN objects :
        /\ scopes[h].target_clip = "root"
        /\ objects[h].process = "finished"
        /\ BroadcastNames(scopes, h) = <<"onLoadStart">>
        /\ last.flag

(***************************************************************************)
(* XmlAttributesObject and XmlIdMapObject (xml_attributes_object.rs,       *)
(* xml_idmap_object.rs): a base ScriptObject with a foreign store.  The    *)
(* record of a view is the record of its base with the store added: node   *)
(* maps the attribute names of the XML node to their values, document maps *)
(* the ids of the XML document to the script objects of their nodes.       *)
(***************************************************************************)
XmlAttributesObject_from_xml_node(xml_node) ==
    [class |-> "XmlAttributesObject", prototype |-> Undefined, values |-> PM_new,
     interfaces |-> <<>>, watchers |-> PM_new, this |-> NoObject,
     base_proto |-> NoObject, node |-> xml_node]

XmlIdMapObject_from_xml_document(xml_doc) ==
    [class |-> "XmlIdMapObject", prototype |-> Undefined, values |-> PM_new,
     interfaces |-> <<>>, watchers |-> PM_new, this |-> NoObject,
     base_proto |-> NoObject, document |-> xml_doc]

\* XmlNode::attribute_value, set_attribute_value and delete_attribute
attribute_value(node, name) ==
    IF name \in DOMAIN node THEN Some(node[name]) ELSE None
set_attribute_value(node, name, value) ==
    [n \in DOMAIN node \cup {name} |-> IF n = name THEN value ELSE node[n]]
delete_attribute(node, name) == [n \in DOMAIN node \ {name} |-> node[n]]

\* XmlDocument::get_node_by_id
get_node_by_id(document, name) ==
    IF name \in DOMAIN document THEN Some(document[name]) ELSE None

\* XmlAttributesObject::get_local
XmlAttributesObject_get_local(objs, o, name) ==
    IF attribute_value(objs[o].node, name) # None
    THEN [some |-> TRUE, res |-> Ok(String(attribute_value(objs[o].node, name)[1])),
          calls |-> <<>>]
    ELSE NotPresent

\* XmlAttributesObject::set_local, of a string
XmlAttributesObject_set_local(objs, o, name, value) ==
    [objs EXCEPT ![o].node = set_attribute_value(@, name, value.val)]

\* XmlAttributesObject::has_own_property
XmlAttributesObject_has_own_property(objs, o, name) ==
    attribute_value(objs[o].node, name) # None

\* XmlAttributesObject::has_property and XmlIdMapObject::has_property:
\* self.base().has_property(activation, name)
XmlAttributesObject_has_property(objs, o, name, cs) == has_property(objs, o, name, cs)
XmlIdMapObject_has_property(objs, o, name, cs) == has_property(objs, o, name, cs)

\* XmlAttributesObject::delete
XmlAttributesObject_delete(objs, o, name, cs) ==
    ScriptObject_delete([objs EXCEPT ![o].node = delete_attribute(@, name)],
                        o, name, cs)

\* XmlIdMapObject::get_local
XmlIdMapObject_get_local(objs, o, name, this, depth, cs) ==
    IF get_node_by_id(objs[o].document, name) # None
    THEN [some |-> TRUE, res |-> Ok(Object(get_node_by_id(objs[o].document, name)[1])),
          calls |-> <<>>]
    ELSE ScriptObject_get_local(objs, o, name, this, depth, cs)

\* XmlIdMapObject::has_own_property
XmlIdMapObject_has_own_property(objs, o, name, cs) ==
    \/ get_node_by_id(objs[o].document, name) # None
    \/ has_own_property(objs, o, name, cs)

\* get_local, has_own_property and has_property of an Object, by its kind.
Kind_get_local(objs, o, name, this, depth, cs) ==
    CASE objs[o].class = "SuperObject" -> SuperObject_get_local
      [] objs[o].class = "XmlAttributesObject" ->
            XmlAttributesObject_get_local(objs, o, name)
      [] objs[o].class = "XmlIdMapObject" ->
            XmlIdMapObject_get_local(objs, o, name, this, depth, cs)
      [] OTHER -> ScriptObject_get_local(objs, o, name, this, depth, cs)

RECURSIVE Kind_has_own_property(_, _, _, _)
Kind_has_own_property(objs, o, name, cs) ==
    CASE objs[o].class = "SuperObject" ->
            Kind_has_own_property(objs, objs[o].this, name, cs)
      [] objs[o].class = "XmlAttributesObject" ->
            XmlAttributesObject_has_own_property(objs, o, name)
      [] objs[o].class = "XmlIdMapObject" ->
            XmlIdMapObject_has_own_property(objs, o, name, cs)
      [] OTHER -> has_own_property(objs, o, name, cs)

RECURSIVE Kind_has_property(_, _, _, _)
Kind_has_property(objs, o, name, cs) ==
    CASE objs[o].class = "SuperObject" ->
            Kind_has_property(objs, objs[o].this, name, cs)
      [] objs[o].class = "XmlAttributesObject" ->
            XmlAttributesObject_has_property(objs, o, name, cs)
      [] objs[o].class = "XmlIdMapObject" ->
            XmlIdMapObject_has_property(objs, o, name, cs)
      [] OTHER -> has_property(objs, o, name, cs)

(***************************************************************************)
(* SpecView: the attributes view va of an XML node and the id map vi of    *)
(* an XML document stand on the scope chain, as with objects, over the     *)
(* global object o1; s1 is a super object for o1.  Attributes are written  *)
(* and deleted through va, the document is parsed anew, values are         *)
(* defined on the bases, and an object is asked about a name.              *)
(***************************************************************************)
MaxViewOps == 3

ViewObjects == {"va", "vi", "o1", "s1"}
ViewNames == {"x", "y"}
ViewArena ==
    <<from_global_object("o1"), new_with_scope(1, "va"), new_with_scope(2, "vi")>>

ViewTick ==
    /\ steps < MaxViewOps
    /\ last.op # "query"
    /\ steps' = steps + 1
    /\ UNCHANGED <<scopes, scope, swf_version>>

InitView ==
    /\ objects = [o \in ViewObjects |->
                    CASE o = "va" -> XmlAttributesObject_from_xml_node(<<>>)
                      [] o = "vi" -> XmlIdMapObject_from_xml_document(<<>>)
                      [] o = "s1" -> SuperObject_new("o1", "o1")
                      [] OTHER -> ScriptObject_object(None)]
    /\ scopes = ViewArena
    /\ scope = Len(ViewArena)
    /\ swf_version \in {6, 7}
    /\ last = NoLast
    /\ steps = 0

\* va[name] = "initial"
ViewSetAttribute ==
    /\ ViewTick
    /\ \E name \in ViewNames :
            /\ objects' = XmlAttributesObject_set_local(objects, "va", name,
                                                        String(StrInitial))
            /\ last' = [NoLast EXCEPT !.op = "set_local", !.obj = "va",
                                      !.name = name]

\* delete va[name]
ViewDeleteAttribute ==
    /\ ViewTick
    /\ \E name \in ViewNames :
            /\ objects' = XmlAttributesObject_delete(objects, "va", name, CS).objs
            /\ last' = [NoLast EXCEPT !.op = "delete", !.obj = "va", !.name = name]

\* The document of vi is parsed: the nodes with an id are those of ids.
ViewParse ==
    /\ ViewTick
    /\ \E ids \in SUBSET ViewNames :
            /\ objects' = [objects EXCEPT !["vi"].document = [n \in ids |-> "o1"]]
            /\ last' = [NoLast EXCEPT !.op = "parse", !.obj = "vi"]

\* o.define_value(name, "replaced", empty) on a base
ViewDefineValue ==
    /\ ViewTick
    /\ \E o \in {"va", "vi", "o1"}, name \in ViewNames :
            /\ objects' = ScriptObject_define_value(objects, o, name,
                                String(StrReplaced), Attribute_empty)
            /\ last' = [NoLast EXCEPT !.op = "define_value", !.obj = o,
                                      !.name = name]

\* o.has_own_property(name), o.has_property(name), o.get_local(name) and
\* the resolve of name from the innermost scope.
ViewQuery ==
    /\ last.op # "query"
    /\ \E o \in ViewObjects, name \in ViewNames :
            last' = [NoLast EXCEPT
                        !.op = "query", !.obj = o, !.name = name,
                        !.keys = <<Kind_has_own_property(objects, o, name, CS),
                                   Kind_has_property(objects, o, name, CS),
                                   Kind_get_local(objects, o, name, o, 0, CS).some>>,
                        !.res = Scope_resolve(objects, scopes, scope, name, CS).res,
                        !.scope = Scope_resolve(objects, scopes, scope, name, CS).at]
    /\ UNCHANGED <<objects, scopes, scope, swf_version, steps>>

NextView ==
    \/ ViewSetAttribute
    \/ ViewDeleteAttribute
    \/ ViewParse
    \/ ViewDefineValue
    \/ ViewQuery

SpecView == InitView /\ [][NextView]_vars

\* C38: for every kind of object and every name has_own_property implies
\* has_property and a get_local that returns Some implies
\* has_own_property; a name an XML view on the scope chain exposes is
\* found by Scope::resolve.
C38_Original ==
    last.op = "query" =>
        /\ last.keys[1] => last.keys[2]
        /\ last.keys[3] => last.keys[1]
        /\ (last.obj \in {"va", "vi"} /\ last.keys[1]) => last.scope # NoScope

\* The view va has the attribute x: has_own_property and get_local say
\* so, has_property does not, and resolve ends with undefined.
C38_Witness ==
    /\ last.op = "query"
    /\ last.obj = "va"
    /\ last.name = "x"
    /\ "x" \in DOMAIN objects["va"].node
    /\ last.keys = <<TRUE, FALSE, TRUE>>
    /\ last.scope = NoScope
    /\ last.res = Ok(UnCallable(Undefined))

\* What the code does: has_own_property implies has_property on a script
\* object and on a super object; on a view has_property is that of the
\* base, which knows nothing of the store; get_local returning Some implies
\* has_own_property on every kind but the super object, whose get_local is
\* always Some; and resolve finds a name only on a link whose base or
\* prototype chain has it.
C38_ViewOutcomes ==
    last.op = "query" =>
        /\ last.obj \in {"o1", "s1"} => (last.keys[1] => last.keys[2])
        /\ last.obj \in {"va", "vi"} =>
                last.keys[2] = has_property(objects, last.obj, last.name, CS)
        /\ last.obj # "s1" => (last.keys[3] => last.keys[1])
        /\ last.obj = "s1" => last.keys[3]
        /\ (last.scope # NoScope) =
                (\E i \in 1..Len(scopes) :
                    has_property(objects, scopes[i].values, last.name, CS))

\* The id map has a node of id y that resolve does not find.
C38_IdMapReached ==
    /\ last.op = "query"
    /\ last.obj = "vi"
    /\ last.name = "y"
    /\ last.keys = <<TRUE, FALSE, TRUE>>
    /\ last.scope = NoScope

\* get_local of the super object is Some for a name its object lacks.
C38_SuperReached ==
    /\ last.op = "query"
    /\ last.obj = "s1"
    /\ last.keys = <<FALSE, FALSE, TRUE>>

(***************************************************************************)
(* external::Value (external.rs): what the host and the engine exchange.   *)
(* An Object is a BTreeMap from keys to values, a finite function here; a  *)
(* List is a sequence.  o1 is prototypes().object and o2                   *)
(* prototypes().array.                                                     *)
(***************************************************************************)
External_Null == [ext |-> "Null", val |-> "-"]
External_Bool(b) == [ext |-> "Bool", val |-> b]
External_Number(f) == [ext |-> "Number", val |-> f]
External_String(s) == [ext |-> "String", val |-> s]
External_Object(values) == [ext |-> "Object", val |-> values]
External_List(values) == [ext |-> "List", val |-> values]

\* The keys of the model, in the byte order a BTreeMap iterates in.
ExternalKeys == <<"", "A", "__proto__", "a">>

BTreeMap_keys(values) == SelectSeq(ExternalKeys, LAMBDA k : k \in DOMAIN values)

\* ScriptObject::array(gc_context, proto): a script object with its
\* elements beside its properties.
ScriptObject_array(proto) ==
    [class |-> "ScriptObject", prototype |-> Object(proto[1]), values |-> PM_new,
     interfaces |-> <<>>, watchers |-> PM_new, this |-> NoObject,
     base_proto |-> NoObject, elements |-> <<>>]

\* object.array(): the elements of an array, nothing for another object.
array(objs, o) ==
    IF "elements" \in DOMAIN objs[o] THEN objs[o].elements ELSE <<>>

\* array.set_array_element(array.length(), value, gc_context)
set_array_element(objs, o, index, value) ==
    IF index = Len(objs[o].elements)
    THEN [objs EXCEPT ![o].elements = Append(@, value)]
    ELSE [objs EXCEPT ![o].elements[index + 1] = value]

\* TObject::is_prototype_of: the loop over the prototypes of other, n
\* turns of it; a chain that does not end within them is a cycle.
RECURSIVE is_prototype_of_loop(_, _, _, _)
is_prototype_of_loop(objs, self, proto, n) ==
    IF proto.tag # "Object" THEN "false"
    ELSE IF proto.val = self THEN "true"
    ELSE IF n = 0 THEN "diverges"
    ELSE is_prototype_of_loop(objs, self, Object_proto(objs, proto.val), n - 1)

is_prototype_of(objs, self, other) ==
    is_prototype_of_loop(objs, self, Object_proto(objs, other),
                         Cardinality(DOMAIN objs))

\* Value::into_avm1: the heap with the objects made and the engine value.
RECURSIVE Value_into_avm1(_, _, _, _)
RECURSIVE into_avm1_object(_, _, _, _, _, _, _)
RECURSIVE into_avm1_list(_, _, _, _, _, _)

\* let _ = object.set(&key, value.into_avm1(activation), activation)
into_avm1_object_set(r, object, values, keys, i, cs, overflow_checks) ==
    into_avm1_object(
        TObject_set(r.objs, object, keys[i], r.val, cs, overflow_checks).objs,
        object, values, keys, i + 1, cs, overflow_checks)

into_avm1_object(objs, object, values, keys, i, cs, overflow_checks) ==
    IF i > Len(keys) THEN [objs |-> objs, val |-> Object(object)]
    ELSE into_avm1_object_set(
            Value_into_avm1(objs, values[keys[i]], cs, overflow_checks),
            object, values, keys, i, cs, overflow_checks)

into_avm1_list_set(r, arr, values, i, cs, overflow_checks) ==
    into_avm1_list(set_array_element(r.objs, arr, Len(r.objs[arr].elements), r.val),
                   arr, values, i + 1, cs, overflow_checks)

into_avm1_list(objs, arr, values, i, cs, overflow_checks) ==
    IF i > Len(values) THEN [objs |-> objs, val |-> Object(arr)]
    ELSE into_avm1_list_set(Value_into_avm1(objs, values[i], cs, overflow_checks),
                            arr, values, i, cs, overflow_checks)

Value_into_avm1(objs, v, cs, overflow_checks) ==
    CASE v.ext = "Null" -> [objs |-> objs, val |-> Null]
      [] v.ext = "Bool" -> [objs |-> objs, val |-> Bool(v.val)]
      [] v.ext = "Number" -> [objs |-> objs, val |-> Number(v.val)]
      [] v.ext = "String" -> [objs |-> objs, val |-> String(v.val)]
      [] v.ext = "Object" ->
            into_avm1_object(allocate_object(objs, fresh_object(objs), Some("o1")),
                             fresh_object(objs), v.val, BTreeMap_keys(v.val), 1,
                             cs, overflow_checks)
      [] v.ext = "List" ->
            into_avm1_list([x \in DOMAIN objs \cup {fresh_object(objs)} |->
                                IF x = fresh_object(objs)
                                THEN ScriptObject_array(Some("o2")) ELSE objs[x]],
                           fresh_object(objs), v.val, 1, cs, overflow_checks)

\* Value::from_avm1: Result<Value, Error>.
RECURSIVE Value_from_avm1(_, _, _)
RECURSIVE from_avm1_list(_, _, _, _, _)
RECURSIVE from_avm1_object(_, _, _, _, _, _)

\* values.push(Value::from_avm1(activation, value)?)
from_avm1_list_push(objs, elements, i, acc, cs, r) ==
    IF r.kind # "Ok" THEN r
    ELSE from_avm1_list(objs, elements, i + 1, Append(acc, r.val), cs)

from_avm1_list(objs, elements, i, acc, cs) ==
    IF i > Len(elements) THEN Ok(External_List(acc))
    ELSE from_avm1_list_push(objs, elements, i, acc, cs,
                             Value_from_avm1(objs, elements[i], cs))

\* values.insert(key, Value::from_avm1(activation, value)?)
from_avm1_object_insert(objs, object, keys, i, acc, cs, r) ==
    IF r.kind # "Ok" THEN r
    ELSE from_avm1_object(objs, object, keys, i + 1,
                          BTreeMap_insert(acc, keys[i], r.val), cs)

\* let value = object.get(&key, activation)?
from_avm1_object_get(objs, object, keys, i, acc, cs, got) ==
    IF got.kind # "Ok" THEN got
    ELSE from_avm1_object_insert(objs, object, keys, i, acc, cs,
                                 Value_from_avm1(objs, got.val, cs))

from_avm1_object(objs, object, keys, i, acc, cs) ==
    IF i > Len(keys) THEN Ok(External_Object(acc))
    ELSE from_avm1_object_get(objs, object, keys, i, acc, cs,
                              TObject_get(objs, object, keys[i], cs).res)

Value_from_avm1(objs, value, cs) ==
    CASE value.tag \in {"Undefined", "Null"} -> Ok(External_Null)
      [] value.tag = "Bool" -> Ok(External_Bool(value.val))
      [] value.tag = "Number" -> Ok(External_Number(value.val))
      [] value.tag = "String" -> Ok(External_String(value.val))
      [] value.tag = "Object" ->
            IF is_prototype_of(objs, "o2", value.val) = "diverges" THEN Diverges
            ELSE IF is_prototype_of(objs, "o2", value.val) = "true"
            THEN from_avm1_list(objs, array(objs, value.val), 1, <<>>, cs)
            ELSE from_avm1_object(objs, value.val,
                                  ScriptObject_get_keys(objs, value.val, cs), 1,
                                  <<>>, cs)

(***************************************************************************)
(* SpecExternal: the host hands a value to the engine and takes it back.   *)
(* The values are the leaves, the maps over the keys of the model, the     *)
(* lists of MaxListLen elements at most, and maps and lists of these.      *)
(***************************************************************************)
MaxListLen == 2

ExternalLeaves ==
    <<External_Null, External_Bool(TRUE), External_Number(Fin(1)),
      External_Number(NaN), External_String(<<"a">>)>>
ExternalSmall == <<External_Null, External_Number(Fin(1)), External_String(<<"a">>)>>
ExternalInner ==
    <<External_Number(Fin(1)), External_List(<<>>),
      External_List(<<External_Number(Fin(1))>>), External_Object(<<>>),
      External_Object([k \in {"a"} |-> External_Number(Fin(1))])>>

\* The ways to pick a value of vals for every key of some of the keys, and
\* for every place of a list.
ExternalPicks(keys, vals) == UNION {[K -> DOMAIN vals] : K \in SUBSET keys}
ExternalPlaces(vals) == UNION {[1..n -> DOMAIN vals] : n \in 0..MaxListLen}

ExternalMap(vals, f) == External_Object([k \in DOMAIN f |-> vals[f[k]]])
ExternalList(vals, f) == External_List([i \in DOMAIN f |-> vals[f[i]]])

InitExternal ==
    /\ objects = [o \in {"o1", "o2"} |->
                    ScriptObject_object(IF o = "o2" THEN Some("o1") ELSE None)]
    /\ scopes = <<>>
    /\ scope = NoScope
    /\ swf_version \in {6, 7}
    /\ last = NoLast
    /\ steps = 0

\* v.into_avm1(activation)
ExternalInto(v) ==
    /\ last.op = "none"
    /\ \E overflow_checks \in BOOLEAN :
            /\ objects' = Value_into_avm1(objects, v, CS, overflow_checks).objs
            /\ last' = [NoLast EXCEPT
                            !.op = "into_avm1", !.arg = v,
                            !.other = Value_into_avm1(objects, v, CS,
                                                      overflow_checks).val]
    /\ UNCHANGED <<scopes, scope, swf_version, steps>>

ExternalIntoAvm1 ==
    \/ \E i \in DOMAIN ExternalLeaves : ExternalInto(ExternalLeaves[i])
    \/ \E f \in ExternalPicks({"", "A", "__proto__", "a"}, ExternalSmall) :
            ExternalInto(ExternalMap(ExternalSmall, f))
    \/ \E f \in ExternalPlaces(ExternalLeaves) :
            ExternalInto(ExternalList(ExternalLeaves, f))
    \/ \E f \in ExternalPicks({"__proto__", "a"}, ExternalInner) :
            ExternalInto(ExternalMap(ExternalInner, f))
    \/ \E f \in ExternalPlaces(ExternalInner) :
            ExternalInto(ExternalList(ExternalInner, f))

\* Value::from_avm1(activation, value) of the value just made
ExternalFromAvm1 ==
    /\ last.op = "into_avm1"
    /\ last' = [last EXCEPT !.op = "from_avm1",
                            !.res = Value_from_avm1(objects, last.other, CS)]
    /\ UNCHANGED <<objects, scopes, scope, swf_version, steps>>

NextExternal ==
    \/ ExternalIntoAvm1
    \/ ExternalFromAvm1

SpecExternal == InitExternal /\ [][NextExternal]_vars

\* Some number of v is NaN.
RECURSIVE is_nan_in(_)
is_nan_in(v) ==
    CASE v.ext = "Number" -> is_nan(v.val)
      [] v.ext = "Object" -> \E k \in DOMAIN v.val : is_nan_in(v.val[k])
      [] v.ext = "List" -> \E i \in 1..Len(v.val) : is_nan_in(v.val[i])
      [] OTHER -> FALSE

\* #[derive(PartialEq)] of external::Value: the same variant with equal
\* contents, numbers compared as f64 (NaN is unequal to itself).
RECURSIVE External_eq(_, _)
External_eq(a, b) ==
    /\ a.ext = b.ext
    /\ CASE a.ext = "Null" -> TRUE
         [] a.ext = "Bool" -> a.val = b.val
         [] a.ext = "Number" -> f64_eq(a.val, b.val)
         [] a.ext = "String" -> a.val = b.val
         [] a.ext = "Object" ->
                /\ DOMAIN a.val = DOMAIN b.val
                /\ \A k \in DOMAIN a.val : External_eq(a.val[k], b.val[k])
         [] a.ext = "List" ->
                /\ Len(a.val) = Len(b.val)
                /\ \A i \in 1..Len(a.val) : External_eq(a.val[i], b.val[i])

\* The round trip has ended and given back the value it was given.
ExternalSame == last.res.kind = "Ok" /\ External_eq(last.res.val, last.arg)

\* The round trip of the value arg has ended with the value res.
ExternalTrip(arg, res) ==
    /\ last.op = "from_avm1"
    /\ ~is_nan_in(arg) /\ External_eq(last.arg, arg)
    /\ last.res.kind = "Ok" /\ External_eq(last.res.val, res)

\* C39: a host value turned into an engine value and back is the value it
\* was, whatever the keys of its maps are, a list coming back as a list
\* and a map as a map.
C39_Original ==
    (last.op = "from_avm1" /\ ~is_nan_in(last.arg)) => ExternalSame

\* The map with the keys "" and "a" has come back with the key "a" alone.
C39_Witness ==
    ExternalTrip(External_Object([k \in {"", "a"} |-> External_Number(Fin(1))]),
                 External_Object([k \in {"a"} |-> External_Number(Fin(1))]))

\* No map of v has the key "" or "__proto__", nor, where names are matched
\* without regard to case, two keys that differ in case only.
RECURSIVE ExternalPlain(_, _)
ExternalPlain(v, cs) ==
    CASE v.ext = "Object" ->
            /\ "" \notin DOMAIN v.val
            /\ "__proto__" \notin DOMAIN v.val
            /\ \A j, k \in DOMAIN v.val : KeyEq(j, k, cs) => j = k
            /\ \A k \in DOMAIN v.val : ExternalPlain(v.val[k], cs)
      [] v.ext = "List" -> \A i \in 1..Len(v.val) : ExternalPlain(v.val[i], cs)
      [] OTHER -> TRUE

\* What the code does: a value without such keys and without NaN comes back
\* as it was.
C39_PlainRoundTrip ==
    (last.op = "from_avm1" /\ ~is_nan_in(last.arg) /\ ExternalPlain(last.arg, CS))
        => ExternalSame

\* A value holding NaN comes back unequal to itself, as every such value is.
C39_NaNReached ==
    /\ last.op = "from_avm1"
    /\ last.arg.ext = "Number" /\ is_nan(last.arg.val)
    /\ last.res.kind = "Ok" /\ last.res.val.ext = "Number"
    /\ is_nan(last.res.val.val)
    /\ ~ExternalSame

\* A map whose __proto__ is a list has come back as an empty list.
C39_ProtoListReached ==
    ExternalTrip(External_Object([k \in {"__proto__"} |->
                                    External_List(<<External_Number(Fin(1))>>)]),
                 External_List(<<>>))

\* A map whose __proto__ is a map has come back with the keys of that map.
C39_ProtoKeysReached ==
    ExternalTrip(External_Object([k \in {"__proto__"} |->
                    External_Object([j \in {"a"} |-> External_Number(Fin(1))])]),
                 External_Object([j \in {"a"} |-> External_Number(Fin(1))]))

\* In version 6 a map with the keys A and a has come back with A alone,
\* holding the value of a.
C39_CaseReached ==
    /\ swf_version = 6
    /\ ExternalTrip(External_Object([k \in {"A", "a"} |->
                        IF k = "A" THEN External_Null ELSE External_Number(Fin(1))]),
                    External_Object([k \in {"A"} |-> External_Number(Fin(1))]))

\* Nested lists and maps without such keys have come back as they were.
C39_NestedReached ==
    ExternalTrip(External_List(<<External_List(<<External_Number(Fin(1))>>),
                                 External_Object([k \in {"a"} |->
                                                    External_Number(Fin(1))])>>),
                 External_List(<<External_List(<<External_Number(Fin(1))>>),
                                 External_Object([k \in {"a"} |->
                                                    External_Number(Fin(1))])>>))

(***************************************************************************)
(* SpecLists: the container mc, empty at first, and three display objects  *)
(* placed by the timeline (none by script).  replace_at_depth puts a       *)
(* display object that is on no list of mc at a depth, swap_at_depth moves *)
(* a child that mc holds, and remove_child takes a child off all lists.    *)
(***************************************************************************)
MaxListOps == 4

ListDepths == {1, 2, 3}

InitLists ==
    /\ objects = [o \in ContainerChildren \cup {"mc"} |->
                    IF o = "mc" THEN ChildContainer_new
                    ELSE [depth |-> 0, parent |-> FALSE,
                          placed_by_script |-> FALSE]]
    /\ scopes = <<>>
    /\ scope = NoScope
    /\ swf_version = 6
    /\ last = NoLast
    /\ steps = 0

\* The step of an operation that returned r; a panic ends the behaviour.
ListsDone(op, child, depth, r) ==
    /\ steps < MaxListOps
    /\ last.res # Panic
    /\ steps' = steps + 1
    /\ objects' = r.objs
    /\ last' = [NoLast EXCEPT !.op = op, !.obj = child, !.arg = depth,
                         !.res = r.res]
    /\ UNCHANGED <<scopes, scope, swf_version>>

ListsReplaceAtDepth ==
    \E child \in ContainerChildren \ ContainerOn(objects), depth \in ListDepths :
        /\ ~objects[child].placed_by_script
        /\ ListsDone("replace_at_depth", child, depth,
                     replace_at_depth(objects, child, depth))

ListsSwapAtDepth ==
    \E child \in ContainerOn(objects), depth \in ListDepths,
       debug_assertions \in BOOLEAN :
        ListsDone("swap_at_depth", child, depth,
                  swap_at_depth(objects, child, depth, debug_assertions))

ListsRemoveChild ==
    \E child \in ContainerChildren, avm2 \in BOOLEAN, debug_assertions \in BOOLEAN :
        /\ objects[child].parent
        /\ ListsDone("remove_child", child, 0,
                     remove_child(objects, child, Lists_all, avm2,
                                  debug_assertions))

NextLists ==
    \/ ListsReplaceAtDepth
    \/ ListsSwapAtDepth
    \/ ListsRemoveChild

SpecLists == InitLists /\ [][NextLists]_vars

\* The children of the render list and of the depth list of mc.
ListsRendered(objs) ==
    {objs["mc"].render_list[i] : i \in 1..Len(objs["mc"].render_list)}

ListsAtDepths(objs) ==
    {objs["mc"].depth_list[d] : d \in DOMAIN objs["mc"].depth_list}

\* C40: from the empty container, under replace_at_depth of display
\* objects that are not in the container and not placed by script,
\* swap_at_depth of children of the container and remove_child from all
\* lists, no operation panics, the render list and the depth list hold the
\* same children, no child is twice on either, the child at the key d of
\* the depth list has the depth d, and the render list ascends by depth.
C40_ListsIdentical ==
    /\ last.res # Panic
    /\ ListsRendered(objects) = ListsAtDepths(objects)
    /\ Cardinality(ListsRendered(objects)) = Len(objects["mc"].render_list)
    /\ Cardinality(ListsAtDepths(objects))
            = Cardinality(DOMAIN objects["mc"].depth_list)
    /\ \A d \in DOMAIN objects["mc"].depth_list :
            objects[objects["mc"].depth_list[d]].depth = d
    /\ \A i, j \in 1..Len(objects["mc"].render_list) :
            i < j => objects[objects["mc"].render_list[i]].depth
                        < objects[objects["mc"].render_list[j]].depth

\* swap_at_depth has moved c1 from the depth below c2 to the free depth
\* above it, and in the render list from before c2 to after it.
C40_Witness ==
    /\ last.op = "swap_at_depth"
    /\ last.obj = "c1"
    /\ last.arg = 3
    /\ steps = 3
    /\ objects["mc"].render_list = <<"c2", "c1">>
    /\ DOMAIN objects["mc"].depth_list = {2, 3}
    /\ objects["c2"].depth = 2
    /\ objects["c1"].depth = 3

\* replace_at_depth has replaced c1 by c2 and returned c1, which has left
\* the container.
C40_ReplacedReached ==
    /\ last.op = "replace_at_depth"
    /\ last.obj = "c2"
    /\ last.res = Ok(Object("c1"))
    /\ objects["mc"].render_list = <<"c2">>
    /\ ~objects["c1"].parent

\* swap_at_depth has swapped the depths and the places of two children.
C40_SwappedReached ==
    /\ last.op = "swap_at_depth"
    /\ last.obj = "c1"
    /\ last.arg = 3
    /\ objects["mc"].render_list = <<"c2", "c1">>
    /\ objects["c2"].depth = 1
    /\ objects["c1"].depth = 3
    /\ steps = 3

\* A removed child that still sees its parent has been placed again.
C40_PlacedAgainReached ==
    /\ last.op = "replace_at_depth"
    /\ last.obj = "c1"
    /\ steps = 4
    /\ Len(objects["mc"].render_list) = 2

====
